---- MODULE Spec2Model ----
(***************************************************************************)
(* A model of the glTF renderers of webgpu-test: the WebGPU renderer with  *)
(* render bundles (src/unnamed/part_000, lines 1-909), the older WebGPU    *)
(* renderer (lines 910-1466) and the WebGL2 PBR shader program             *)
(* (src/js/webgl2-renderer/pbr-material.js).                               *)
(*                                                                         *)
(* JavaScript objects are modelled by their identity: a scene-graph object *)
(* (material, primitive, buffer view, image, node) is a string, a          *)
(* pipeline is its index in the sequence of createRenderPipeline calls, a  *)
(* shader module is its id.  A JavaScript Map is a sequence of entries in  *)
(* insertion order.  A renderData field that may be undefined is a         *)
(* function whose DOMAIN holds the objects on which the field is set.      *)
(***************************************************************************)
EXTENDS Integers, Sequences, FiniteSets, TLC

(***************************************************************************)
(* Bounds of the model.                                                    *)
(***************************************************************************)
\* setGltf calls started in one behaviour
MaxLoads == 2
\* onFrame calls in one behaviour
MaxFrames == 2
\* update calls on a DynamicUniformBuffer used on its own
MaxUpdates == 5

(***************************************************************************)
(* glTF enumerations (WebGLRenderingContext constants, GL in the source).  *)
(***************************************************************************)
GL_POINTS == 0
GL_LINES == 1
GL_LINE_LOOP == 2
GL_LINE_STRIP == 3
GL_TRIANGLES == 4
GL_TRIANGLE_STRIP == 5
GL_TRIANGLE_FAN == 6
GL_BYTE == 5120
GL_UNSIGNED_BYTE == 5121
GL_SHORT == 5122
GL_UNSIGNED_SHORT == 5123
GL_UNSIGNED_INT == 5125
GL_FLOAT == 5126
GL_LINEAR == 9729
GL_LINEAR_MIPMAP_NEAREST == 9985
GL_NEAREST_MIPMAP_LINEAR == 9986
GL_LINEAR_MIPMAP_LINEAR == 9987
GL_REPEAT == 10497
GL_MIRRORED_REPEAT == 33648

\* Renderer.lightCount of the base class, a fixed number of lights
lightCount == 5

(***************************************************************************)
(* Generic helpers for Maps kept as sequences of entries.                  *)
(***************************************************************************)
Range(s) == {s[i] : i \in DOMAIN s}

RECURSIVE Concat(_)
Concat(ss) == IF ss = <<>> THEN "" ELSE Head(ss) \o Concat(Tail(ss))

RECURSIVE Flatten(_)
Flatten(ss) == IF ss = <<>> THEN <<>> ELSE Head(ss) \o Flatten(Tail(ss))

Last(s) == s[Len(s)]

(***************************************************************************)
(* The scene graphs handed to setGltf.  Three scenes:                      *)
(*   sceneA  five primitives over three textured materials, one of them    *)
(*           blended, one primitive with an unsupported draw mode, one     *)
(*           primitive referenced by two nodes;                            *)
(*   sceneB  one opaque untextured primitive and one blended primitive     *)
(*           with a base-color texture;                                    *)
(*   sceneC  three opaque primitives without TEXCOORD_0, one of them with  *)
(*           vertex colors.                                                *)
(***************************************************************************)
NoTexture == "none"

\* material |-> its fields; a texture field is the image of the texture, or
\* NoTexture.  roughness is metallicRoughnessFactor[1] in hundredths.
Material(blend, cullFace, base, normal, mr, occlusion, emissive, roughness) ==
    [blend |-> blend, cullFace |-> cullFace, baseColorTexture |-> base,
     normalTexture |-> normal, metallicRoughnessTexture |-> mr,
     occlusionTexture |-> occlusion, emissiveTexture |-> emissive,
     roughness |-> roughness]

materialData ==
    [mA1 |-> Material(TRUE, TRUE, "imgA", "imgA", "imgA", NoTexture, NoTexture, 100),
     mA2 |-> Material(FALSE, TRUE, "imgA", NoTexture, NoTexture, NoTexture, NoTexture, 100),
     mA3 |-> Material(FALSE, TRUE, "imgA", NoTexture, NoTexture, NoTexture, NoTexture, 50),
     mB1 |-> Material(FALSE, TRUE, NoTexture, NoTexture, NoTexture, NoTexture, NoTexture, 50),
     mB2 |-> Material(TRUE, TRUE, "imgB", NoTexture, NoTexture, NoTexture, NoTexture, 50),
     mC1 |-> Material(FALSE, FALSE, "imgC", NoTexture, NoTexture, NoTexture, NoTexture, 100),
     mC2 |-> Material(FALSE, FALSE, "imgC", NoTexture, NoTexture, NoTexture, "imgC", 100)]

Materials == DOMAIN materialData

\* the sampler of every texture of the scenes
textureSampler == "smp1"

\* sampler |-> the fields it has: smp1 has no minFilter and no wrapT
samplerData == [smp1 |-> [magFilter |-> GL_LINEAR, wrapS |-> GL_REPEAT]]

Attribute(name, componentType, componentCount, normalized, byteOffset, packed) ==
    [name |-> name, componentType |-> componentType,
     componentCount |-> componentCount, normalized |-> normalized,
     byteOffset |-> byteOffset, packedByteStride |-> packed]

aPosition(off) == Attribute("POSITION", GL_FLOAT, 3, FALSE, off, 12)
aNormal(off) == Attribute("NORMAL", GL_FLOAT, 3, FALSE, off, 12)
aTexcoord(off) == Attribute("TEXCOORD_0", GL_FLOAT, 2, FALSE, off, 8)
aColor(off) == Attribute("COLOR_0", GL_UNSIGNED_BYTE, 4, TRUE, off, 4)

\* primitive.attributeBuffers: Map<bufferView, attributes>, each entry with
\* the byteStride of its buffer view (0 when the view has none)
interleaved(bv) ==
    << [bufferView |-> bv, byteStride |-> 32,
        attributes |-> <<aPosition(0), aNormal(12), aTexcoord(24)>>] >>
packedPN(bv) ==
    << [bufferView |-> bv, byteStride |-> 0,
        attributes |-> <<aPosition(0), aNormal(12)>>] >>
packedPNC(bv) ==
    << [bufferView |-> bv, byteStride |-> 0,
        attributes |-> <<aPosition(0), aNormal(12), aColor(24)>>] >>

NoIndices == [type |-> 0, bufferView |-> "none", byteOffset |-> 0]
Indices(type, bv) == [type |-> type, bufferView |-> bv, byteOffset |-> 0]

Primitive(material, mode, buffers, indices, elementCount) ==
    [material |-> material, mode |-> mode, attributeBuffers |-> buffers,
     indices |-> indices, elementCount |-> elementCount]

primitiveData ==
    [pA1 |-> Primitive("mA1", GL_TRIANGLES, interleaved("bvA1"),
                       Indices(GL_UNSIGNED_SHORT, "bvA2"), 6),
     pA2 |-> Primitive("mA2", GL_TRIANGLES, interleaved("bvA1"),
                       Indices(GL_UNSIGNED_SHORT, "bvA2"), 6),
     pA3 |-> Primitive("mA3", GL_TRIANGLES, interleaved("bvA1"),
                       Indices(GL_UNSIGNED_SHORT, "bvA2"), 3),
     pA4 |-> Primitive("mA2", GL_TRIANGLES, interleaved("bvA1"),
                       Indices(GL_UNSIGNED_SHORT, "bvA2"), 9),
     pA5 |-> Primitive("mA2", GL_LINE_LOOP, interleaved("bvA1"),
                       Indices(GL_UNSIGNED_SHORT, "bvA2"), 4),
     pB1 |-> Primitive("mB1", GL_TRIANGLES, packedPN("bvB1"), NoIndices, 3),
     pB2 |-> Primitive("mB2", GL_TRIANGLES, interleaved("bvB1"), NoIndices, 3),
     pC1 |-> Primitive("mC1", GL_TRIANGLES, packedPN("bvC1"), NoIndices, 3),
     pC2 |-> Primitive("mC2", GL_TRIANGLES, packedPN("bvC1"),
                       Indices(GL_UNSIGNED_INT, "bvC1"), 3),
     pC3 |-> Primitive("mC1", GL_TRIANGLE_STRIP, packedPNC("bvC1"), NoIndices, 4)]

Primitives == DOMAIN primitiveData

\* primitive.attributes: the attribute names of the primitive
attributesOf(primitive) ==
    UNION { {a.name : a \in Range(b.attributes)} :
            b \in Range(primitiveData[primitive].attributeBuffers) }

\* bufferView |-> byteLength and usage
bufferViewData ==
    [bvA0 |-> [byteLength |-> 20, usage |-> {}],
     bvA1 |-> [byteLength |-> 13, usage |-> {"vertex"}],
     bvA2 |-> [byteLength |-> 8, usage |-> {"index"}],
     bvB1 |-> [byteLength |-> 6, usage |-> {"vertex"}],
     bvC1 |-> [byteLength |-> 16, usage |-> {"vertex", "index"}]]

BufferViews == DOMAIN bufferViewData
Images == {"imgA", "imgB", "imgC"}

\* node |-> its primitives and children (node.worldMatrix is the node itself)
nodeData ==
    [nA0 |-> [primitives |-> <<>>, children |-> <<"nA1", "nA2">>],
     nA1 |-> [primitives |-> <<"pA1", "pA2">>, children |-> <<"nA3">>],
     nA2 |-> [primitives |-> <<"pA3", "pA4", "pA5">>, children |-> <<>>],
     nA3 |-> [primitives |-> <<"pA4">>, children |-> <<>>],
     nB0 |-> [primitives |-> <<"pB1", "pB2">>, children |-> <<>>],
     nC0 |-> [primitives |-> <<"pC1">>, children |-> <<"nC1">>],
     nC1 |-> [primitives |-> <<"pC2", "pC3">>, children |-> <<>>]]

gltfData ==
    [sceneA |-> [bufferViews |-> <<"bvA0", "bvA1", "bvA2">>, images |-> <<"imgA">>,
                 samplers |-> <<"smp1">>, scene |-> "nA0",
                 materials |-> <<"mA1", "mA2", "mA3">>,
                 primitives |-> <<"pA1", "pA2", "pA3", "pA4", "pA5">>],
     sceneB |-> [bufferViews |-> <<"bvB1">>, images |-> <<"imgB">>,
                 samplers |-> <<"smp1">>, scene |-> "nB0",
                 materials |-> <<"mB1", "mB2">>,
                 primitives |-> <<"pB1", "pB2">>],
     sceneC |-> [bufferViews |-> <<"bvC1">>, images |-> <<"imgC">>,
                 samplers |-> <<"smp1">>, scene |-> "nC0",
                 materials |-> <<"mC1", "mC2">>,
                 primitives |-> <<"pC1", "pC2", "pC3">>]]

Scenes == DOMAIN gltfData

sceneOfPrimitive(primitive) ==
    CHOOSE s \in Scenes : primitive \in Range(gltfData[s].primitives)

(***************************************************************************)
(* Maps.  An entry is [key, value]; get answers 0 for a missing key, which *)
(* is no value of any Map of the renderers.                                *)
(***************************************************************************)
MapHas(map, key) == \E i \in DOMAIN map : map[i].key = key

MapGet(map, key) ==
    IF MapHas(map, key)
    THEN map[CHOOSE i \in DOMAIN map : map[i].key = key].value
    ELSE 0

MapSet(map, key, value) ==
    IF MapHas(map, key)
    THEN [i \in DOMAIN map |->
            IF map[i].key = key THEN [key |-> key, value |-> value] ELSE map[i]]
    ELSE Append(map, [key |-> key, value |-> value])

(***************************************************************************)
(* Shader variant flags.                                                   *)
(***************************************************************************)
\* the names of the entries of conds (<<name, condition>>) whose condition
\* holds, in order: the keys of a defines object in insertion order
definesWhere(conds) ==
    LET chosen == SelectSeq(conds, LAMBDA c : c[2])
    IN  [i \in DOMAIN chosen |-> chosen[i][1]]

\* getProgramDefines without the test of TANGENT
getProgramDefinesNoTangent(primitive) ==
    LET attributes == primitive.attributes
        material == primitive.material
        texcoord == "TEXCOORD_0" \in attributes
    IN  definesWhere(<<
          <<"USE_VERTEX_COLOR", "COLOR_0" \in attributes>>,
          <<"USE_BASE_COLOR_MAP", texcoord /\ material.baseColorTexture # NoTexture>>,
          <<"USE_NORMAL_MAP", texcoord /\ material.normalTexture # NoTexture>>,
          <<"USE_METAL_ROUGH_MAP",
            texcoord /\ material.metallicRoughnessTexture # NoTexture>>,
          <<"USE_OCCLUSION", texcoord /\ material.occlusionTexture # NoTexture>>,
          <<"USE_EMISSIVE_TEXTURE", texcoord /\ material.emissiveTexture # NoTexture>>,
          <<"FULLY_ROUGH",
            (material.metallicRoughnessTexture = NoTexture \/ ~texcoord)
            /\ material.metallicRoughnessFactor[2] = 100>> >>)

\* getProgramDefines reading metallicRoughnessFactor[0], the metallic factor
getProgramDefinesMetallic(primitive) ==
    LET attributes == primitive.attributes
        material == primitive.material
        texcoord == "TEXCOORD_0" \in attributes
    IN  definesWhere(<<
          <<"USE_VERTEX_COLOR", "COLOR_0" \in attributes>>,
          <<"USE_BASE_COLOR_MAP", texcoord /\ material.baseColorTexture # NoTexture>>,
          <<"USE_NORMAL_MAP", texcoord /\ material.normalTexture # NoTexture
                              /\ "TANGENT" \in attributes>>,
          <<"USE_METAL_ROUGH_MAP",
            texcoord /\ material.metallicRoughnessTexture # NoTexture>>,
          <<"USE_OCCLUSION", texcoord /\ material.occlusionTexture # NoTexture>>,
          <<"USE_EMISSIVE_TEXTURE", texcoord /\ material.emissiveTexture # NoTexture>>,
          <<"FULLY_ROUGH",
            (material.metallicRoughnessTexture = NoTexture \/ ~texcoord)
            /\ material.metallicRoughnessFactor[1] = 100>> >>)

\* a getProgramDefines whose FULLY_ROUGH looks at the roughness factor alone
getProgramDefinesRoughByFactor(primitive) ==
    LET attributes == primitive.attributes
        material == primitive.material
        texcoord == "TEXCOORD_0" \in attributes
    IN  definesWhere(<<
          <<"USE_VERTEX_COLOR", "COLOR_0" \in attributes>>,
          <<"USE_BASE_COLOR_MAP", texcoord /\ material.baseColorTexture # NoTexture>>,
          <<"USE_NORMAL_MAP", texcoord /\ material.normalTexture # NoTexture
                              /\ "TANGENT" \in attributes>>,
          <<"USE_METAL_ROUGH_MAP",
            texcoord /\ material.metallicRoughnessTexture # NoTexture>>,
          <<"USE_OCCLUSION", texcoord /\ material.occlusionTexture # NoTexture>>,
          <<"USE_EMISSIVE_TEXTURE", texcoord /\ material.emissiveTexture # NoTexture>>,
          <<"FULLY_ROUGH", material.metallicRoughnessFactor[2] = 100>> >>)

\* PBRShaderProgram.getProgramDefines of the WebGL2 backend.  primitive is
\* the primitive object: attributes are the names of primitive.attributes,
\* material.metallicRoughnessFactor is <<metallic, roughness>> in hundredths
\* (the source's index 1 is the second element)
getProgramDefines(primitive) ==
    LET attributes == primitive.attributes
        material == primitive.material
        texcoord == "TEXCOORD_0" \in attributes
    IN  definesWhere(<<
          <<"USE_VERTEX_COLOR", "COLOR_0" \in attributes>>,
          <<"USE_BASE_COLOR_MAP", texcoord /\ material.baseColorTexture # NoTexture>>,
          <<"USE_NORMAL_MAP", texcoord /\ material.normalTexture # NoTexture
                              /\ "TANGENT" \in attributes>>,
          <<"USE_METAL_ROUGH_MAP",
            texcoord /\ material.metallicRoughnessTexture # NoTexture>>,
          <<"USE_OCCLUSION", texcoord /\ material.occlusionTexture # NoTexture>>,
          <<"USE_EMISSIVE_TEXTURE", texcoord /\ material.emissiveTexture # NoTexture>>,
          <<"FULLY_ROUGH",
            (material.metallicRoughnessTexture = NoTexture \/ ~texcoord)
            /\ material.metallicRoughnessFactor[2] = 100>> >>)

\* GetDefinesForPrimitive of pbr-shader.js, which the WebGPU renderer
\* imports: the flag derivation of the shader variant cache
GetDefinesForPrimitive(primitive) ==
    LET attributes == attributesOf(primitive)
        material == materialData[primitiveData[primitive].material]
        usable(texture) == "TEXCOORD_0" \in attributes /\ texture # NoTexture
    IN  definesWhere(<<
          <<"USE_VERTEX_COLOR", "COLOR_0" \in attributes>>,
          <<"USE_BASE_COLOR_MAP", usable(material.baseColorTexture)>>,
          <<"USE_NORMAL_MAP",
            usable(material.normalTexture) /\ "TANGENT" \in attributes>>,
          <<"USE_METAL_ROUGH_MAP", usable(material.metallicRoughnessTexture)>>,
          <<"USE_OCCLUSION", usable(material.occlusionTexture)>>,
          <<"USE_EMISSIVE_TEXTURE", usable(material.emissiveTexture)>>,
          <<"FULLY_ROUGH",
            ~usable(material.metallicRoughnessTexture) /\ material.roughness = 100>> >>)

\* the key of this.programs: `${define}=${defines[define]},` for each define,
\* LIGHT_COUNT last
programKey(defines) ==
    Concat([i \in DOMAIN defines |-> defines[i] \o "=1,"])
    \o "LIGHT_COUNT=" \o ToString(lightCount) \o ","

(***************************************************************************)
(* Vertex state and pipeline keys.                                         *)
(***************************************************************************)
\* ATTRIB_MAP: the shader location of an attribute.  The WebGPU renderer
\* imports the map of this name from pbr-shader.js.
ATTRIB_MAP(name) ==
    CASE name = "POSITION" -> "1"
      [] name = "NORMAL" -> "2"
      [] name = "TANGENT" -> "3"
      [] name = "TEXCOORD_0" -> "4"
      [] name = "TEXCOORD_1" -> "5"
      [] name = "COLOR_0" -> "6"
      [] OTHER -> "undefined"

\* ATTRIB_MAP of the older WebGPU renderer
ATTRIB_MAP_older(name) ==
    CASE name = "POSITION" -> "0"
      [] name = "NORMAL" -> "1"
      [] name = "TANGENT" -> "2"
      [] name = "TEXCOORD_0" -> "3"
      [] name = "COLOR_0" -> "4"
      [] OTHER -> "undefined"

\* the vertex format string of an attribute
vertexFormat(attribute) ==
    LET count == IF attribute.componentCount > 1
                 THEN ToString(attribute.componentCount) ELSE ""
        norm == IF attribute.normalized THEN "norm" ELSE ""
    IN  CASE attribute.componentType = GL_BYTE -> "char" \o count \o norm
          [] attribute.componentType = GL_UNSIGNED_BYTE -> "uchar" \o count \o norm
          [] attribute.componentType = GL_SHORT -> "short" \o count \o norm
          [] attribute.componentType = GL_UNSIGNED_SHORT -> "ushort" \o count \o norm
          [] attribute.componentType = GL_UNSIGNED_INT -> "uint" \o count
          [] attribute.componentType = GL_FLOAT -> "float" \o count
          [] OTHER -> "undefined"

RECURSIVE packedStride(_)
packedStride(attributes) ==
    IF attributes = <<>> THEN 0
    ELSE Head(attributes).packedByteStride + packedStride(Tail(attributes))

\* primitive.renderData.gpuVertexState, as initPrimitive builds it; older
\* selects the ATTRIB_MAP of the older renderer.  indexFormat "" is undefined.
gpuVertexState(primitive, older) ==
    LET buffers == primitiveData[primitive].attributeBuffers
        indices == primitiveData[primitive].indices
        layout(a) ==
            [shaderLocation |-> IF older THEN ATTRIB_MAP_older(a.name)
                                ELSE ATTRIB_MAP(a.name),
             offset |-> a.byteOffset, format |-> vertexFormat(a)]
    IN  [vertexBuffers |->
           [i \in DOMAIN buffers |->
              [arrayStride |->
                 IF buffers[i].byteStride = 0
                 THEN packedStride(buffers[i].attributes)
                 ELSE buffers[i].byteStride,
               attributes |-> [j \in DOMAIN buffers[i].attributes |->
                                 layout(buffers[i].attributes[j])]]],
         indexFormat |-> IF indices.type = GL_UNSIGNED_SHORT THEN "uint16" ELSE ""]

Unsupported == "unsupported"

\* a switch that knows no unsupported draw mode
primitiveTopologyAny(mode) == "triangle-list"

\* the switch on primitive.mode of createPipeline
primitiveTopology(mode) ==
    CASE mode = GL_TRIANGLES -> "triangle-list"
      [] mode = GL_TRIANGLE_STRIP -> "triangle-strip"
      [] mode = GL_LINES -> "line-list"
      [] mode = GL_LINE_STRIP -> "line-strip"
      [] mode = GL_POINTS -> "point-list"
      [] OTHER -> Unsupported

cullModeOf(material) == IF materialData[material].cullFace THEN "back" ELSE "none"

\* a colorBlend descriptor that is never filled in
colorBlendOfUnset(material) == [srcFactor |-> "", dstFactor |-> ""]

\* the colorBlend descriptor of createPipeline; "" is an unset factor
colorBlendOf(material) ==
    IF materialData[material].blend
    THEN [srcFactor |-> "src-alpha", dstFactor |-> "one-minus-src-alpha"]
    ELSE [srcFactor |-> "", dstFactor |-> ""]

\* the part of a pipeline key that describes the vertex state
vertexStateKey(vertexState) ==
    LET attributeKey(a) ==
            ":" \o a.shaderLocation \o "," \o ToString(a.offset) \o "," \o a.format
        bufferKey(i) ==
            ToString(i - 1) \o ":" \o ToString(vertexState.vertexBuffers[i].arrayStride)
            \o Concat([j \in DOMAIN vertexState.vertexBuffers[i].attributes |->
                         attributeKey(vertexState.vertexBuffers[i].attributes[j])])
            \o "|"
    IN  Concat([i \in DOMAIN vertexState.vertexBuffers |-> bufferKey(i)])
        \o vertexState.indexFormat

\* pipelineKey of createPipeline, for a primitive whose shader module has
\* the id shaderId
pipelineKey(primitive, shaderId) ==
    LET material == primitiveData[primitive].material
    IN  ToString(shaderId) \o "|"
        \o primitiveTopology(primitiveData[primitive].mode) \o "|"
        \o cullModeOf(material) \o "|"
        \o (IF materialData[material].blend THEN "true" ELSE "false") \o "|"
        \o vertexStateKey(gpuVertexState(primitive, FALSE))

\* pipelineKey of createPipeline of the older renderer
pipelineKeyOlder(primitive) ==
    primitiveTopology(primitiveData[primitive].mode) \o "|"
    \o cullModeOf(primitiveData[primitive].material) \o "|"
    \o vertexStateKey(gpuVertexState(primitive, TRUE))

(***************************************************************************)
(* The load-time operations.  They act on a record W of the renderer's     *)
(* fields and of the renderData fields of the scene graph:                 *)
(*   programs            this.programs, Map of program key -> shader id    *)
(*   NEXT_SHADER_ID      the module-level counter                          *)
(*   pipelines           this.pipelines, Map of pipeline key -> pipeline   *)
(*   created             the descriptors of the createRenderPipeline calls *)
(*   pipelineMaterials   this.pipelineMaterials: for each pipeline the Map *)
(*                       of material -> primitives                         *)
(*   opaquePipelines, blendedPipelines   the two lists                     *)
(*   instances, gpuShaderModule, primitiveBindGroup   renderData of the    *)
(*                       primitives (the bind group is the node whose      *)
(*                       world matrix it holds)                            *)
(*   materialBindGroup   renderData.gpuBindGroup of the materials          *)
(*   gpuTextureView      for each image the number of views made for it:   *)
(*                       the view <<image, n>> is its current view         *)
(*   keysSeen            the pipeline keys createPipeline has computed     *)
(*   failing             the defines the GLSL compiler rejects in this     *)
(*                       load                                              *)
(*   thrown              "" or the operation whose exception is            *)
(*                       propagating                                       *)
(***************************************************************************)
\* a cache that never answers: what createPipeline would see if the lookup
\* of pipelineKey always missed
cachedPipelineMiss(W, key) == 0

\* a program cache that never answers
cachedProgramMiss(W, key) == -1

\* this.pipelines.get(pipelineKey)
cachedPipeline(W, key) == MapGet(W.pipelines, key)

\* this.programs.get(key): the id of the cached shader module, -1 for none
cachedProgram(W, key) ==
    IF MapHas(W.programs, key) THEN MapGet(W.programs, key) ELSE -1

\* the view bound for a texture slot: the texture's view, or the placeholder
textureView(W, texture, placeholder) ==
    IF texture # NoTexture
    THEN [image |-> texture,
          view |-> IF texture \in DOMAIN W.gpuTextureView
                   THEN W.gpuTextureView[texture] ELSE 0]
    ELSE [image |-> placeholder, view |-> 0]

Unbound == [image |-> "unbound", view |-> 0]

\* initMaterial: binding 1 reads material.baseColorTexture.sampler, a
\* TypeError when the material has no base-color texture
initMaterial(W, material) ==
    LET m == materialData[material]
    IN  IF m.baseColorTexture = NoTexture
        THEN [W EXCEPT !.thrown = "initMaterial"]
        ELSE [W EXCEPT !.materialBindGroup =
                (material :>
                   [sampler |-> textureSampler,
                    baseColor |-> textureView(W, m.baseColorTexture, "whiteTextureView"),
                    normal |-> textureView(W, m.normalTexture, "blueTextureView"),
                    metallicRoughness |->
                       textureView(W, m.metallicRoughnessTexture, "whiteTextureView"),
                    occlusion |-> textureView(W, m.occlusionTexture, "whiteTextureView"),
                    emissive |-> textureView(W, m.emissiveTexture, "blackTextureView")])
                @@ @]

\* initMaterial of the older renderer: bindings 1 and 2 read
\* material.baseColorTexture.image and .sampler
initMaterialOlder(W, material) ==
    LET m == materialData[material]
    IN  IF m.baseColorTexture = NoTexture
        THEN [W EXCEPT !.thrown = "initMaterial"]
        ELSE [W EXCEPT !.materialBindGroup =
                (material :>
                   [sampler |-> textureSampler,
                    baseColor |-> textureView(W, m.baseColorTexture, "unbound"),
                    normal |-> Unbound, metallicRoughness |-> Unbound,
                    occlusion |-> Unbound, emissive |-> Unbound])
                @@ @]

\* materialPrimitives.push(primitive) under pipelineMaterialPrimitives
registerPrimitive(buckets, material, primitive) ==
    IF MapHas(buckets, material)
    THEN MapSet(buckets, material, Append(MapGet(buckets, material), primitive))
    ELSE MapSet(buckets, material, <<primitive>>)

\* a getPipeline that puts a new pipeline at the front of its list
getPipelineListedFirst(W, primitive, key) ==
    LET material == primitiveData[primitive].material
        found == cachedPipeline(W, key)
        pipeline == Len(W.created) + 1
        blend == materialData[material].blend
        descriptor ==
            [shader |-> W.gpuShaderModule[primitive],
             primitiveTopology |-> primitiveTopology(primitiveData[primitive].mode),
             cullMode |-> cullModeOf(material),
             colorBlend |-> colorBlendOf(material)]
    IN  IF found # 0
        THEN [W EXCEPT
                !.pipelineMaterials[found] = registerPrimitive(@, material, primitive),
                !.keysSeen = @ \cup {key}]
        ELSE [W EXCEPT
                !.created = Append(@, descriptor),
                !.pipelines = MapSet(@, key, pipeline),
                !.blendedPipelines = IF blend THEN <<pipeline>> \o @ ELSE @,
                !.opaquePipelines = IF blend THEN @ ELSE <<pipeline>> \o @,
                !.pipelineMaterials =
                    Append(@, registerPrimitive(<<>>, material, primitive)),
                !.keysSeen = @ \cup {key}]

\* a createPipeline that lists the pipeline at every call, cached or not
getPipelineListedAgain(W, primitive, key) ==
    LET material == primitiveData[primitive].material
        found == cachedPipeline(W, key)
        pipeline == IF found # 0 THEN found ELSE Len(W.created) + 1
        blend == materialData[material].blend
        descriptor ==
            [shader |-> W.gpuShaderModule[primitive],
             primitiveTopology |-> primitiveTopology(primitiveData[primitive].mode),
             cullMode |-> cullModeOf(material),
             colorBlend |-> colorBlendOf(material)]
    IN  [W EXCEPT
           !.created = IF found # 0 THEN @ ELSE Append(@, descriptor),
           !.pipelines = MapSet(@, key, pipeline),
           !.blendedPipelines = IF blend THEN Append(@, pipeline) ELSE @,
           !.opaquePipelines = IF blend THEN @ ELSE Append(@, pipeline),
           !.pipelineMaterials =
               IF found # 0
               THEN [@ EXCEPT ![found] = registerPrimitive(@, material, primitive)]
               ELSE Append(@, registerPrimitive(<<>>, material, primitive)),
           !.keysSeen = @ \cup {key}]

\* createPipeline from the lookup of pipelineKey on: the pipeline is the
\* cached one, or it is created, cached and listed; then the primitive is
\* pushed under its material
getPipeline(W, primitive, key) ==
    LET material == primitiveData[primitive].material
        found == cachedPipeline(W, key)
        pipeline == Len(W.created) + 1
        blend == materialData[material].blend
        descriptor ==
            [shader |-> W.gpuShaderModule[primitive],
             primitiveTopology |-> primitiveTopology(primitiveData[primitive].mode),
             cullMode |-> cullModeOf(material),
             colorBlend |-> colorBlendOf(material)]
    IN  IF found # 0
        THEN [W EXCEPT
                !.pipelineMaterials[found] = registerPrimitive(@, material, primitive),
                !.keysSeen = @ \cup {key}]
        ELSE [W EXCEPT
                !.created = Append(@, descriptor),
                !.pipelines = MapSet(@, key, pipeline),
                !.blendedPipelines = IF blend THEN Append(@, pipeline) ELSE @,
                !.opaquePipelines = IF blend THEN @ ELSE Append(@, pipeline),
                !.pipelineMaterials =
                    Append(@, registerPrimitive(<<>>, material, primitive)),
                !.keysSeen = @ \cup {key}]

\* createPipeline: nothing for an unsupported draw mode
createPipeline(W, primitive) ==
    IF primitiveTopology(primitiveData[primitive].mode) = Unsupported THEN W
    ELSE getPipeline(W, primitive, pipelineKey(primitive, W.gpuShaderModule[primitive]))

\* createPipeline of the older renderer from the lookup of pipelineKey on:
\* one shader module, no blend state, no lists
getPipelineOlder(W, primitive, key) ==
    LET material == primitiveData[primitive].material
        found == cachedPipeline(W, key)
        pipeline == Len(W.created) + 1
        descriptor ==
            [shader |-> 0,
             primitiveTopology |-> primitiveTopology(primitiveData[primitive].mode),
             cullMode |-> cullModeOf(material),
             colorBlend |-> [srcFactor |-> "", dstFactor |-> ""]]
    IN  IF found # 0
        THEN [W EXCEPT
                !.pipelineMaterials[found] = registerPrimitive(@, material, primitive),
                !.keysSeen = @ \cup {key}]
        ELSE [W EXCEPT
                !.created = Append(@, descriptor),
                !.pipelines = MapSet(@, key, pipeline),
                !.pipelineMaterials =
                    Append(@, registerPrimitive(<<>>, material, primitive)),
                !.keysSeen = @ \cup {key}]

\* createPipeline of the older renderer
createPipelineOlder(W, primitive) ==
    IF primitiveTopology(primitiveData[primitive].mode) = Unsupported THEN W
    ELSE getPipelineOlder(W, primitive, pipelineKeyOlder(primitive))

\* the part of initPrimitive after the shader module: the primitive's bind
\* group over instances[0] and createPipeline.  Reading .length of an
\* undefined instances is a TypeError.
initInstances(W, primitive, older) ==
    IF primitive \notin DOMAIN W.instances
    THEN [W EXCEPT !.thrown = "initPrimitive"]
    ELSE IF Len(W.instances[primitive]) = 0 THEN W
    ELSE LET W1 == [W EXCEPT !.primitiveBindGroup =
                       (primitive :> W.instances[primitive][1]) @@ @]
         IN  IF older THEN createPipelineOlder(W1, primitive)
             ELSE createPipeline(W1, primitive)

\* new PBRShaderModule(device, glslang, defines): takes the next id, then
\* compiles; compileGLSL throws on a variant the compiler rejects
compiles(W, defines) == Range(defines) \cap W.failing = {}

\* a getProgram that puts the module into this.programs before it compiles
getProgramCachedUncompiled(W, primitive, defines, key) ==
    LET program == cachedProgram(W, key)
    IN  IF program # -1
        THEN initInstances([W EXCEPT !.gpuShaderModule = (primitive :> program) @@ @],
                           primitive, FALSE)
        ELSE IF ~compiles(W, defines)
        THEN [W EXCEPT !.NEXT_SHADER_ID = @ + 1,
                       !.programs = MapSet(@, key, W.NEXT_SHADER_ID),
                       !.thrown = "compileGLSL"]
        ELSE initInstances(
               [W EXCEPT !.NEXT_SHADER_ID = @ + 1,
                         !.programs = MapSet(@, key, W.NEXT_SHADER_ID),
                         !.gpuShaderModule = (primitive :> W.NEXT_SHADER_ID) @@ @],
               primitive, FALSE)

\* initPrimitive from the lookup of the program on: the cached shader
\* module, or a new one; then the instances and the pipeline
getProgram(W, primitive, defines, key) ==
    LET program == cachedProgram(W, key)
    IN  IF program # -1
        THEN initInstances([W EXCEPT !.gpuShaderModule = (primitive :> program) @@ @],
                           primitive, FALSE)
        ELSE IF ~compiles(W, defines)
        THEN [W EXCEPT !.NEXT_SHADER_ID = @ + 1, !.thrown = "compileGLSL"]
        ELSE initInstances(
               [W EXCEPT !.NEXT_SHADER_ID = @ + 1,
                         !.programs = MapSet(@, key, W.NEXT_SHADER_ID),
                         !.gpuShaderModule = (primitive :> W.NEXT_SHADER_ID) @@ @],
               primitive, FALSE)

\* the program key of a primitive
programKeyOf(primitive) == programKey(GetDefinesForPrimitive(primitive))

\* initPrimitive
initPrimitive(W, primitive) ==
    getProgram(W, primitive, GetDefinesForPrimitive(primitive), programKeyOf(primitive))

\* initPrimitive of the older renderer
initPrimitiveOlder(W, primitive) == initInstances(W, primitive, TRUE)

RECURSIVE initMaterials(_, _, _)
\* for (let material of gltf.materials) this.initMaterial(material)
initMaterials(W, materials, older) ==
    IF materials = <<>> \/ W.thrown # "" THEN W
    ELSE initMaterials(IF older THEN initMaterialOlder(W, Head(materials))
                       ELSE initMaterial(W, Head(materials)),
                       Tail(materials), older)

RECURSIVE initPrimitives(_, _, _)
\* for (let primitive of gltf.primitives) this.initPrimitive(primitive)
initPrimitives(W, primitives, older) ==
    IF primitives = <<>> \/ W.thrown # "" THEN W
    ELSE initPrimitives(IF older THEN initPrimitiveOlder(W, Head(primitives))
                        ELSE initPrimitive(W, Head(primitives)),
                        Tail(primitives), older)

RECURSIVE initNode(_, _)
RECURSIVE initNodes(_, _)
RECURSIVE pushInstances(_, _, _)
\* instances.push(node.worldMatrix) for each primitive of the node
pushInstances(instances, primitives, node) ==
    IF primitives = <<>> THEN instances
    ELSE LET p == Head(primitives)
             had == IF p \in DOMAIN instances THEN instances[p] ELSE <<>>
         IN  pushInstances((p :> Append(had, node)) @@ instances,
                           Tail(primitives), node)

\* initNode, on the instances of the primitives
initNode(instances, node) ==
    initNodes(pushInstances(instances, nodeData[node].primitives, node),
              nodeData[node].children)

initNodes(instances, nodes) ==
    IF nodes = <<>> THEN instances
    ELSE initNodes(initNode(instances, Head(nodes)), Tail(nodes))

(***************************************************************************)
(* Draw commands.  A command is [op, obj, num].                            *)
(***************************************************************************)
Command(op, obj, num) == [op |-> op, obj |-> obj, num |-> num]

\* the commands of one primitive with a non-indexed draw whatever it has
drawPrimitiveNonIndexed(primitive) ==
    LET p == primitiveData[primitive]
    IN  <<Command("setBindGroup", primitive, 2)>>
        \o [i \in DOMAIN p.attributeBuffers |->
              Command("setVertexBuffer", p.attributeBuffers[i].bufferView, i - 1)]
        \o <<Command("draw", primitive, p.elementCount)>>

\* the commands of one primitive: its bind group, its vertex buffers, and
\* an indexed draw if it has indices, a draw otherwise (instance count 1)
drawPrimitive(primitive) ==
    LET p == primitiveData[primitive]
    IN  <<Command("setBindGroup", primitive, 2)>>
        \o [i \in DOMAIN p.attributeBuffers |->
              Command("setVertexBuffer", p.attributeBuffers[i].bufferView, i - 1)]
        \o (IF p.indices # NoIndices
            THEN <<Command("setIndexBuffer", p.indices.bufferView, p.indices.byteOffset),
                   Command("drawIndexed", primitive, p.elementCount)>>
            ELSE <<Command("draw", primitive, p.elementCount)>>)

\* drawPipelinePrimitives
drawPipelinePrimitives(W, pipeline) ==
    LET buckets == W.pipelineMaterials[pipeline]
        drawMaterial(b) ==
            <<Command("setBindGroup", b.key, 1)>>
            \o Flatten([i \in DOMAIN b.value |-> drawPrimitive(b.value[i])])
    IN  <<Command("setPipeline", "", pipeline)>>
        \o Flatten([i \in DOMAIN buckets |-> drawMaterial(buckets[i])])

\* a bundle in which the light sprites are drawn before the blended
\* pipelines
recordBundleSpritesEarly(W) ==
    <<Command("setBindGroup", "frameUniformBindGroup", 0),
      Command("setBindGroup", "lightUniformBindGroup", 3)>>
    \o Flatten([i \in DOMAIN W.opaquePipelines |->
                  drawPipelinePrimitives(W, W.opaquePipelines[i])])
    \o <<Command("setPipeline", "lightSpritePipeline", 0),
         Command("setBindGroup", "lightSpriteBindGroup", 0),
         Command("draw", "lightSprite", 4)>>
    \o Flatten([i \in DOMAIN W.blendedPipelines |->
                  drawPipelinePrimitives(W, W.blendedPipelines[i])])

\* the render bundle setGltf records: opaque pipelines, blended pipelines,
\* then the light sprites
recordBundle(W) ==
    <<Command("setBindGroup", "frameUniformBindGroup", 0),
      Command("setBindGroup", "lightUniformBindGroup", 3)>>
    \o Flatten([i \in DOMAIN W.opaquePipelines |->
                  drawPipelinePrimitives(W, W.opaquePipelines[i])])
    \o Flatten([i \in DOMAIN W.blendedPipelines |->
                  drawPipelinePrimitives(W, W.blendedPipelines[i])])
    \o <<Command("setPipeline", "lightSpritePipeline", 0),
         Command("setBindGroup", "lightSpriteBindGroup", 0),
         Command("draw", "lightSprite", 4)>>

\* the render pass of onFrame of the older renderer: every pipeline of
\* this.pipelines in insertion order
renderPassOlder(W) ==
    <<Command("setBindGroup", "frameUniformBindGroup", 0)>>
    \o Flatten([i \in DOMAIN W.pipelines |->
                  drawPipelinePrimitives(W, W.pipelines[i].value)])

(***************************************************************************)
(* Samplers.  A sampler is a function of the fields it has (an absent      *)
(* field is undefined); a sampler descriptor is a function of the fields   *)
(* that were assigned.                                                     *)
(***************************************************************************)
\* samplerDescriptor = {}
emptyDescriptor == <<>>

\* the switch on sampler.minFilter, with its case undefined
minFilterOf(sampler) ==
    IF "minFilter" \notin DOMAIN sampler
    THEN [minFilter |-> "linear", mipmapFilter |-> "linear"]
    ELSE CASE sampler.minFilter \in {GL_LINEAR, GL_LINEAR_MIPMAP_NEAREST} ->
                [minFilter |-> "linear"]
           [] sampler.minFilter = GL_NEAREST_MIPMAP_LINEAR ->
                [mipmapFilter |-> "linear"]
           [] sampler.minFilter = GL_LINEAR_MIPMAP_LINEAR ->
                [minFilter |-> "linear", mipmapFilter |-> "linear"]
           [] OTHER -> emptyDescriptor

\* the switch on sampler.minFilter of the older renderer: no case undefined
minFilterOfOlder(sampler) ==
    IF "minFilter" \notin DOMAIN sampler
    THEN emptyDescriptor
    ELSE CASE sampler.minFilter \in {GL_LINEAR, GL_LINEAR_MIPMAP_NEAREST} ->
                [minFilter |-> "linear"]
           [] sampler.minFilter = GL_NEAREST_MIPMAP_LINEAR ->
                [mipmapFilter |-> "linear"]
           [] sampler.minFilter = GL_LINEAR_MIPMAP_LINEAR ->
                [minFilter |-> "linear", mipmapFilter |-> "linear"]
           [] OTHER -> emptyDescriptor

\* if (!sampler.magFilter || sampler.magFilter == GL.LINEAR)
magFilterOf(sampler) ==
    IF \/ "magFilter" \notin DOMAIN sampler
       \/ sampler.magFilter = 0
       \/ sampler.magFilter = GL_LINEAR
    THEN [magFilter |-> "linear"]
    ELSE emptyDescriptor

\* if (sampler.magFilter == GL.LINEAR)
magFilterOfOlder(sampler) ==
    IF "magFilter" \in DOMAIN sampler /\ sampler.magFilter = GL_LINEAR
    THEN [magFilter |-> "linear"]
    ELSE emptyDescriptor

\* the switch on sampler.wrapS (addressModeU) and on sampler.wrapT
\* (addressModeV)
addressModeOf(sampler, wrap, addressMode) ==
    IF wrap \notin DOMAIN sampler
    THEN emptyDescriptor
    ELSE CASE sampler[wrap] = GL_REPEAT -> addressMode :> "repeat"
           [] sampler[wrap] = GL_MIRRORED_REPEAT -> addressMode :> "mirror-repeat"
           [] OTHER -> emptyDescriptor

\* initSampler: the samplerDescriptor handed to createSampler
initSampler(sampler) ==
    minFilterOf(sampler) @@ magFilterOf(sampler)
      @@ addressModeOf(sampler, "wrapS", "addressModeU")
      @@ addressModeOf(sampler, "wrapT", "addressModeV")

\* initSampler of the older renderer
initSamplerOlder(sampler) ==
    minFilterOfOlder(sampler) @@ magFilterOfOlder(sampler)
      @@ addressModeOf(sampler, "wrapS", "addressModeU")
      @@ addressModeOf(sampler, "wrapT", "addressModeV")

(***************************************************************************)
(* Buffer views and the uniform upload buffers.                            *)
(***************************************************************************)
\* Math.ceil(byteLength / 4) * 4
alignedLength(byteLength) == ((byteLength + 3) \div 4) * 4

\* the size of the GPU buffer initBufferView creates, and of the copy
gpuBufferSize(bufferView, older) ==
    IF older THEN bufferViewData[bufferView].byteLength
    ELSE alignedLength(bufferViewData[bufferView].byteLength)

\* a DynamicUniformBuffer after its constructor.  Upload buffers are
\* numbered in the order of their allocation; previousBuffer 0 is null;
\* mapping holds the buffers with a mapWriteAsync in flight.
newDynamicUniformBuffer ==
    [mappedBuffers |-> <<>>, previousBuffer |-> 0, mapping |-> {}, allocated |-> 0]

\* an acquireMappedBuffer that creates a buffer at every call and leaves the
\* pool alone
acquireMappedBufferAlwaysNew(d) ==
    [buffer |-> d.allocated + 1, dub |-> [d EXCEPT !.allocated = @ + 1]]

\* an acquireMappedBuffer that reads the last recycled buffer and leaves it in
\* the pool
acquireMappedBufferPeeking(d) ==
    IF Len(d.mappedBuffers) > 0
    THEN [buffer |-> Last(d.mappedBuffers), dub |-> d]
    ELSE [buffer |-> d.allocated + 1,
          dub |-> [d EXCEPT !.allocated = @ + 1]]

\* acquireMappedBuffer: the last recycled buffer, or a new one
acquireMappedBuffer(d) ==
    IF Len(d.mappedBuffers) > 0
    THEN [buffer |-> Last(d.mappedBuffers),
          dub |-> [d EXCEPT !.mappedBuffers = SubSeq(@, 1, Len(@) - 1)]]
    ELSE [buffer |-> d.allocated + 1,
          dub |-> [d EXCEPT !.allocated = @ + 1]]

\* an update that puts the previous buffer back into the pool itself,
\* without mapWriteAsync
updateRecyclingAtOnce(d) ==
    LET a == acquireMappedBuffer(d)
    IN  [a.dub EXCEPT
           !.mappedBuffers = IF d.previousBuffer # 0
                             THEN Append(@, d.previousBuffer) ELSE @,
           !.previousBuffer = a.buffer]

\* DynamicUniformBuffer.update
update(d) ==
    LET a == acquireMappedBuffer(d)
    IN  [a.dub EXCEPT
           !.mapping = IF d.previousBuffer # 0 THEN @ \cup {d.previousBuffer} ELSE @,
           !.previousBuffer = a.buffer]

\* the callback of pendingBuffer.mapWriteAsync()
mapWriteResolved(d, buffer) ==
    [d EXCEPT !.mapping = @ \ {buffer}, !.mappedBuffers = Append(@, buffer)]

(***************************************************************************)
(* The state.                                                              *)
(*   older     which renderer the behaviour is of: the older WebGPU        *)
(*             renderer (TRUE) or the renderer with render bundles         *)
(*   device    "none" before init, "ok" after it, "failed" when the        *)
(*             adapter or the device could not be acquired                 *)
(*   load      the setGltf call: phase "idle" or "awaiting" (at the await  *)
(*             of Promise.all) and its gltf                                *)
(*   pending   the buffer views and images whose upload is in flight       *)
(*   loads, frames   the setGltf and onFrame calls so far                  *)
(*   settled   the setGltf calls that have returned, in order: the gltf   *)
(*             and "resolved", or the operation that made it reject        *)
(*   frame     <<>>, or <<commands>>: the commands of the latest onFrame   *)
(*             since the last step of a setGltf                            *)
(*   gpuBuffer, gpuTextureView, gpuSampler   renderData of the buffer      *)
(*             views, images and samplers, with the number of GPU objects  *)
(*             made for each so far                                        *)
(*   submitted the command buffers the latest onFrame call handed to       *)
(*             defaultQueue.submit, each the commands of its encoder       *)
(*   gl        the WebGL2 context of bindPrimitive and bindMaterial        *)
(*   argument, returned   for a function applied on its own: its argument  *)
(*             and <<>> or <<the value it returned>>                       *)
(* and the fields of the record W above.                                   *)
(***************************************************************************)
VARIABLES older, device, load, pending, loads, frames, settled, frame,
          programs, NEXT_SHADER_ID, pipelines, created, pipelineMaterials,
          opaquePipelines, blendedPipelines, renderBundle,
          instances, gpuShaderModule, primitiveBindGroup, materialBindGroup,
          gpuBuffer, gpuTextureView, gpuSampler, keysSeen,
          frameUniformsBuffer, lightUniformsBuffer, submitted,
          argument, returned, gl

sceneVars == <<programs, NEXT_SHADER_ID, pipelines, created, pipelineMaterials,
               opaquePipelines, blendedPipelines, gpuShaderModule,
               primitiveBindGroup, materialBindGroup, keysSeen>>
uniformVars == <<frameUniformsBuffer, lightUniformsBuffer>>
\* the argument a function is applied to on its own, <<what it returned>>, and
\* the WebGL2 context the functions of the WebGL2 backend work on
callVars == <<argument, returned, gl>>
vars == <<callVars, submitted,
          older, device, load, pending, loads, frames, settled, frame,
          sceneVars, renderBundle, instances, gpuBuffer, gpuTextureView, gpuSampler,
          uniformVars>>

\* the defines the GLSL compiler may reject in a load
CompileFailures == {{}, {"USE_VERTEX_COLOR"}}

World(failing) ==
    [programs |-> programs, NEXT_SHADER_ID |-> NEXT_SHADER_ID,
     pipelines |-> pipelines, created |-> created,
     pipelineMaterials |-> pipelineMaterials,
     opaquePipelines |-> opaquePipelines, blendedPipelines |-> blendedPipelines,
     instances |-> instances, gpuShaderModule |-> gpuShaderModule,
     primitiveBindGroup |-> primitiveBindGroup,
     materialBindGroup |-> materialBindGroup, gpuTextureView |-> gpuTextureView,
     keysSeen |-> keysSeen, failing |-> failing, thrown |-> ""]

Adopt(W) ==
    /\ programs' = W.programs
    /\ NEXT_SHADER_ID' = W.NEXT_SHADER_ID
    /\ pipelines' = W.pipelines
    /\ created' = W.created
    /\ pipelineMaterials' = W.pipelineMaterials
    /\ opaquePipelines' = W.opaquePipelines
    /\ blendedPipelines' = W.blendedPipelines
    /\ gpuShaderModule' = W.gpuShaderModule
    /\ primitiveBindGroup' = W.primitiveBindGroup
    /\ materialBindGroup' = W.materialBindGroup
    /\ keysSeen' = W.keysSeen

Idle == [phase |-> "idle", gltf |-> "none"]

\* the entry of settled for a setGltf that returned
Settled(gltf, thrown) ==
    [gltf |-> gltf, result |-> IF thrown = "" THEN "resolved" ELSE thrown]

\* the scenes a setGltf has resolved for
resolved == {settled[i].gltf : i \in {j \in DOMAIN settled : settled[j].result = "resolved"}}

\* a WebGL2 context as created: no vertex attribute array enabled, no buffer
\* bound, texture unit 0 active, no texture and no sampler bound to a unit
WebGL2RenderingContext ==
    [enabled |-> {}, pointer |-> <<>>,
     ARRAY_BUFFER |-> "none", ELEMENT_ARRAY_BUFFER |-> "none",
     activeTexture |-> 0, texture |-> <<>>, sampler |-> <<>>]

\* the state after the constructor of either renderer
constructor ==
    /\ older \in BOOLEAN
    /\ device = "none"
    /\ load = Idle
    /\ pending = {}
    /\ loads = 0
    /\ frames = 0
    /\ settled = <<>>
    /\ frame = <<>>
    /\ programs = <<>>
    /\ NEXT_SHADER_ID = 0
    /\ pipelines = <<>>
    /\ created = <<>>
    /\ pipelineMaterials = <<>>
    /\ opaquePipelines = <<>>
    /\ blendedPipelines = <<>>
    /\ renderBundle = <<>>
    /\ instances = <<>>
    /\ gpuShaderModule = <<>>
    /\ primitiveBindGroup = <<>>
    /\ materialBindGroup = <<>>
    /\ gpuBuffer = <<>>
    /\ gpuTextureView = <<>>
    /\ gpuSampler = <<>>
    /\ keysSeen = {}
    /\ frameUniformsBuffer = newDynamicUniformBuffer
    /\ lightUniformsBuffer = newDynamicUniformBuffer
    /\ submitted = <<>>

\* the renderer constructed, no function applied on its own
Init ==
    /\ constructor
    /\ gl = WebGL2RenderingContext
    /\ argument = <<>>
    /\ returned = <<>>

\* init(): the adapter and the device are acquired, or init fails
init ==
    /\ device = "none"
    /\ \E acquired \in BOOLEAN : device' = IF acquired THEN "ok" ELSE "failed"
    /\ UNCHANGED <<callVars, submitted,
                   older, load, pending, loads, frames, settled, frame, sceneVars,
                   renderBundle, instances, gpuBuffer, gpuTextureView, gpuSampler, uniformVars>>

\* a setGltf that uploads every buffer view, whatever its usage
uploadedWhateverUsage(bufferViews) == Range(bufferViews)

\* the buffer views initBufferView uploads: those with a vertex or index usage
uploaded(bufferViews) ==
    {bv \in Range(bufferViews) : bufferViewData[bv].usage \cap {"vertex", "index"} # {}}

\* how often a resource has got its GPU object: field `count` of its entry
countOf(objects, resource, count) ==
    IF resource \in DOMAIN objects THEN objects[resource][count] ELSE 0

\* setGltf up to its await: initBufferView and initImage start the uploads
\* (a GPU buffer is created for each uploaded buffer view), initSampler
\* creates the samplers, initNode collects the instances
setGltfStart(gltf) ==
    /\ device = "ok"
    /\ load.phase = "idle"
    /\ pending = {}
    /\ loads < MaxLoads
    /\ loads' = loads + 1
    /\ load' = [phase |-> "awaiting", gltf |-> gltf]
    /\ pending' = uploaded(gltfData[gltf].bufferViews) \cup Range(gltfData[gltf].images)
    /\ gpuBuffer' = [bv \in uploaded(gltfData[gltf].bufferViews) |->
                       [size |-> gpuBufferSize(bv, older), copied |-> 0,
                        buffers |-> countOf(gpuBuffer, bv, "buffers") + 1,
                        uploads |-> countOf(gpuBuffer, bv, "uploads")]] @@ gpuBuffer
    /\ gpuSampler' = [sampler \in Range(gltfData[gltf].samplers) |->
                        [descriptor |-> IF older THEN initSamplerOlder(samplerData[sampler])
                                        ELSE initSampler(samplerData[sampler]),
                         samplers |-> countOf(gpuSampler, sampler, "samplers") + 1]]
                     @@ gpuSampler
    /\ instances' = initNode(instances, gltfData[gltf].scene)
    /\ frame' = <<>>
    /\ UNCHANGED <<callVars, submitted,
                   older, device, frames, settled, sceneVars, renderBundle,
                   gpuTextureView, uniformVars>>

\* an upload completes: the buffer view's data is copied to its GPU buffer,
\* the image gets its texture view
uploadResolved(resource) ==
    /\ resource \in pending
    /\ pending' = pending \ {resource}
    /\ IF resource \in BufferViews
       THEN /\ gpuBuffer' = [gpuBuffer EXCEPT
                               ![resource].copied = gpuBufferSize(resource, older),
                               ![resource].uploads = @ + 1]
            /\ UNCHANGED gpuTextureView
       ELSE /\ gpuTextureView' =
                 (resource :> (IF resource \in DOMAIN gpuTextureView
                               THEN gpuTextureView[resource] ELSE 0) + 1)
                 @@ gpuTextureView
            /\ UNCHANGED gpuBuffer
    /\ UNCHANGED <<callVars, submitted,
                   older, device, load, loads, frames, settled, frame, sceneVars,
                   renderBundle, instances, gpuSampler, uniformVars>>

\* a failed upload whose rejection is swallowed: setGltf waits for the other
\* uploads and goes on
uploadRejectedSwallowed(resource) ==
    /\ resource \in pending
    /\ pending' = pending \ {resource}
    /\ UNCHANGED <<callVars, submitted,
                   older, device, load, loads, frames, settled, frame, sceneVars,
                   renderBundle, instances, gpuBuffer, gpuTextureView, gpuSampler,
                   uniformVars>>

\* an upload fails: Promise.all rejects and setGltf with it, while the
\* other uploads go on
uploadRejected(resource) ==
    /\ resource \in pending
    /\ pending' = pending \ {resource}
    /\ load' = Idle
    /\ settled' = IF load.phase = "awaiting"
                  THEN Append(settled, Settled(load.gltf, "upload")) ELSE settled
    /\ frame' = IF load.phase = "awaiting" THEN <<>> ELSE frame
    /\ UNCHANGED <<callVars, submitted,
                   older, device, loads, frames, sceneVars, renderBundle,
                   instances, gpuBuffer, gpuTextureView, gpuSampler, uniformVars>>

\* a join that does not wait
joinedAtOnce(uploads) == TRUE

\* await Promise.all(resourcePromises) lets setGltf go on
joined(uploads) == uploads = {}

\* setGltf after its await: the materials, the primitives, the bundle
setGltfBuild ==
    /\ ~older
    /\ load.phase = "awaiting"
    /\ joined(pending)
    /\ \E failing \in CompileFailures :
         \E W \in {initPrimitives(
                      initMaterials(World(failing), gltfData[load.gltf].materials, FALSE),
                      gltfData[load.gltf].primitives, FALSE)} :
             /\ Adopt(W)
             /\ renderBundle' = IF W.thrown # "" THEN renderBundle ELSE recordBundle(W)
             /\ settled' = Append(settled, Settled(load.gltf, W.thrown))
    /\ load' = Idle
    /\ frame' = <<>>
    /\ UNCHANGED <<callVars, submitted,
                   older, device, pending, loads, frames, instances, gpuBuffer,
                   gpuTextureView, gpuSampler, uniformVars>>

\* setGltf of the older renderer after its await
setGltfBuildOlder ==
    /\ older
    /\ load.phase = "awaiting"
    /\ joined(pending)
    /\ \E W \in {initPrimitives(
                    initMaterials(World({}), gltfData[load.gltf].materials, TRUE),
                    gltfData[load.gltf].primitives, TRUE)} :
           /\ Adopt(W)
           /\ settled' = Append(settled, Settled(load.gltf, W.thrown))
    /\ load' = Idle
    /\ frame' = <<>>
    /\ UNCHANGED <<callVars, submitted,
                   older, device, pending, loads, frames, renderBundle, instances,
                   gpuBuffer, gpuTextureView, gpuSampler, uniformVars>>

\* a pass that replays the bundle in the first frame only
executedBundleFirstFrame(bundle) == IF frames = 0 THEN bundle ELSE <<>>

\* what the render pass of onFrame executes: the bundle, if there is one
executedBundle(bundle) == bundle

\* init has configured the swap chain and created the uniform buffers
hasSwapChainAlways(d) == TRUE

\* this.swapChain is set by init once the adapter and the device are there
hasSwapChain(d) == d = "ok"

\* a command encoder on which the render pass is begun before the copies
commandBufferPassFirst(frameCopy, lightCopy, bundle) ==
    <<Command("beginRenderPass", "renderPassDescriptor", 0),
      Command("copyBufferToBuffer", "frameUniformsBuffer", frameCopy),
      Command("copyBufferToBuffer", "lightUniformsBuffer", lightCopy)>>
    \o (IF bundle # <<>>
        THEN <<Command("executeBundles", "renderBundle", Len(bundle))>>
        ELSE <<>>)
    \o <<Command("endPass", "renderPassDescriptor", 0)>>

\* the commands onFrame encodes: the copies update() records for the frame
\* and the light uniforms (num is the upload buffer copied from), then the
\* render pass, which replays the bundle if there is one
commandBuffer(frameCopy, lightCopy, bundle) ==
    <<Command("copyBufferToBuffer", "frameUniformsBuffer", frameCopy),
      Command("copyBufferToBuffer", "lightUniformsBuffer", lightCopy),
      Command("beginRenderPass", "renderPassDescriptor", 0)>>
    \o (IF bundle # <<>>
        THEN <<Command("executeBundles", "renderBundle", Len(bundle))>>
        ELSE <<>>)
    \o <<Command("endPass", "renderPassDescriptor", 0)>>

\* the commands onFrame of the older renderer encodes: the render pass
\* (the frame uniforms are written with setSubData, outside the encoder)
commandBufferOlder(pass) ==
    <<Command("beginRenderPass", "renderPassDescriptor", 0),
      Command("draws", "pipelines", Len(pass)),
      Command("endPass", "renderPassDescriptor", 0)>>

\* an onFrame that forgets the blended pipelines once it has drawn
onFrameDropping ==
    /\ ~older
    /\ hasSwapChain(device)
    /\ frames < MaxFrames
    /\ frames' = frames + 1
    /\ frameUniformsBuffer' = update(frameUniformsBuffer)
    /\ lightUniformsBuffer' = update(lightUniformsBuffer)
    /\ frame' = <<executedBundle(renderBundle)>>
    /\ submitted' = <<commandBuffer(frameUniformsBuffer'.previousBuffer,
                                    lightUniformsBuffer'.previousBuffer, renderBundle)>>
    /\ blendedPipelines' = <<>>
    /\ UNCHANGED <<callVars, older, device, load, pending, loads, settled,
                   programs, NEXT_SHADER_ID, pipelines, created, pipelineMaterials,
                   opaquePipelines, gpuShaderModule, primitiveBindGroup,
                   materialBindGroup, keysSeen,
                   renderBundle, instances, gpuBuffer, gpuTextureView, gpuSampler>>

\* onFrame: both uniform buffers are updated, then the pass replays the
\* bundle, and the one command buffer is submitted
onFrame ==
    /\ ~older
    /\ hasSwapChain(device)
    /\ frames < MaxFrames
    /\ frames' = frames + 1
    /\ frameUniformsBuffer' = update(frameUniformsBuffer)
    /\ lightUniformsBuffer' = update(lightUniformsBuffer)
    /\ frame' = <<executedBundle(renderBundle)>>
    /\ submitted' = <<commandBuffer(frameUniformsBuffer'.previousBuffer,
                                    lightUniformsBuffer'.previousBuffer, renderBundle)>>
    /\ UNCHANGED <<callVars, older, device, load, pending, loads, settled, sceneVars,
                   renderBundle, instances, gpuBuffer, gpuTextureView, gpuSampler>>

\* onFrame of the older renderer: the pass draws this.pipelines
onFrameOlder ==
    /\ older
    /\ hasSwapChain(device)
    /\ frames < MaxFrames
    /\ frames' = frames + 1
    /\ frame' = <<renderPassOlder(World({}))>>
    /\ submitted' = <<commandBufferOlder(frame'[1])>>
    /\ UNCHANGED <<callVars, older, device, load, pending, loads, settled, sceneVars,
                   renderBundle, instances, gpuBuffer, gpuTextureView, gpuSampler, uniformVars>>

\* onFrame of either renderer without a swap chain (init has not run, or
\* has failed): this.swapChain.getCurrentTexture() throws a TypeError (the
\* older renderer: this.frameUniformsBuffer.setSubData), nothing is encoded
\* or submitted
onFrameThrows ==
    /\ ~hasSwapChain(device)
    /\ frames < MaxFrames
    /\ frames' = frames + 1
    /\ submitted' = <<>>
    /\ UNCHANGED <<callVars, older, device, load, pending, loads, settled, frame,
                   sceneVars, renderBundle, instances, gpuBuffer, gpuTextureView, gpuSampler,
                   uniformVars>>

\* a mapWriteAsync of an upload buffer of the frame uniforms completes
frameMapWriteResolved(buffer) ==
    /\ buffer \in frameUniformsBuffer.mapping
    /\ frameUniformsBuffer' = mapWriteResolved(frameUniformsBuffer, buffer)
    /\ UNCHANGED <<callVars, submitted,
                   older, device, load, pending, loads, frames, settled, frame,
                   sceneVars, renderBundle, instances, gpuBuffer, gpuTextureView, gpuSampler,
                   lightUniformsBuffer>>

\* a mapWriteAsync of an upload buffer of the light uniforms completes
lightMapWriteResolved(buffer) ==
    /\ buffer \in lightUniformsBuffer.mapping
    /\ lightUniformsBuffer' = mapWriteResolved(lightUniformsBuffer, buffer)
    /\ UNCHANGED <<callVars, submitted,
                   older, device, load, pending, loads, frames, settled, frame,
                   sceneVars, renderBundle, instances, gpuBuffer, gpuTextureView, gpuSampler,
                   frameUniformsBuffer>>

UploadBuffers == 1..(MaxFrames + 1)

Next ==
    \/ init
    \/ \E gltf \in Scenes : setGltfStart(gltf)
    \/ \E resource \in BufferViews \cup Images : uploadResolved(resource)
    \/ \E resource \in BufferViews \cup Images : uploadRejected(resource)
    \/ setGltfBuild
    \/ setGltfBuildOlder
    \/ onFrame
    \/ onFrameOlder
    \/ onFrameThrows
    \/ \E buffer \in UploadBuffers : frameMapWriteResolved(buffer)
    \/ \E buffer \in UploadBuffers : lightMapWriteResolved(buffer)

Spec == Init /\ [][Next]_vars

\* the calls and callbacks but for the map-write callbacks, which change
\* frameUniformsBuffer and lightUniformsBuffer alone and read nothing else:
\* the behaviours of the scene's state under Spec and SpecScene are the same
NextScene ==
    \/ init
    \/ \E gltf \in Scenes : setGltfStart(gltf)
    \/ \E resource \in BufferViews \cup Images : uploadResolved(resource)
    \/ \E resource \in BufferViews \cup Images : uploadRejected(resource)
    \/ setGltfBuild
    \/ setGltfBuildOlder
    \/ onFrame
    \/ onFrameOlder
    \/ onFrameThrows

SpecScene == Init /\ [][NextScene]_vars

(***************************************************************************)
(* getProgramDefines applied on its own, to every primitive object of      *)
(* DefinesInputs.                                                          *)
(***************************************************************************)
\* a texture object, for a material of DefinesInputs
SomeTexture == "imgA"

\* metallic and roughness factors in hundredths: 0.0, 0.5, 0.99, 1.0
Factors == {0, 50, 99, 100}

\* the primitive objects getProgramDefines is applied to: POSITION with any
\* of COLOR_0, TEXCOORD_0 and TANGENT, a material with any of its five
\* textures and any two factors
DefinesInputs ==
    { [attributes |-> {"POSITION"} \cup optional,
       material |-> [baseColorTexture |-> textures[1],
                     normalTexture |-> textures[2],
                     metallicRoughnessTexture |-> textures[3],
                     occlusionTexture |-> textures[4],
                     emissiveTexture |-> textures[5],
                     metallicRoughnessFactor |-> <<metallic, roughness>>]] :
        optional \in SUBSET {"COLOR_0", "TEXCOORD_0", "TANGENT"},
        textures \in [1..5 -> {NoTexture, SomeTexture}],
        metallic \in {0, 100}, roughness \in Factors }

InitDefines ==
    /\ constructor
    /\ gl = WebGL2RenderingContext
    /\ argument \in DefinesInputs
    /\ returned = <<>>

\* the call getProgramDefines(primitive)
callGetProgramDefines ==
    /\ returned = <<>>
    /\ returned' = <<getProgramDefines(argument)>>
    /\ UNCHANGED <<argument, gl, submitted, older, device, load, pending, loads, frames,
                   settled, frame, sceneVars, renderBundle, instances, gpuBuffer,
                   gpuTextureView, gpuSampler, uniformVars>>

NextDefines == callGetProgramDefines

SpecDefines == InitDefines /\ [][NextDefines]_vars

(***************************************************************************)
(* initSampler applied on its own, to every sampler of SamplerInputs.      *)
(***************************************************************************)
\* the codes a field of a sampler may hold: the codes initSampler names,
\* NEAREST (9728), NEAREST_MIPMAP_NEAREST (9984), CLAMP_TO_EDGE (33071) and
\* codes glTF does not know (0, 1)
codesOf(field) ==
    CASE field = "minFilter" ->
           {GL_LINEAR, GL_LINEAR_MIPMAP_NEAREST, GL_NEAREST_MIPMAP_LINEAR,
            GL_LINEAR_MIPMAP_LINEAR, 9728, 9984, 1}
      [] field = "magFilter" -> {GL_LINEAR, 9728, 0}
      [] OTHER -> {GL_REPEAT, GL_MIRRORED_REPEAT, 33071, 1}

\* the samplers: any of the four fields, absent or with one of its codes
SamplerInputs ==
    UNION { { sampler \in [fields -> UNION {codesOf(f) : f \in fields}] :
                \A f \in fields : sampler[f] \in codesOf(f) } :
            fields \in SUBSET {"minFilter", "magFilter", "wrapS", "wrapT"} }

InitSampler ==
    /\ constructor
    /\ gl = WebGL2RenderingContext
    /\ argument \in SamplerInputs
    /\ returned = <<>>

\* the call initSampler(sampler) of the renderer with render bundles
callInitSampler ==
    /\ ~older
    /\ returned = <<>>
    /\ returned' = <<initSampler(argument)>>
    /\ UNCHANGED <<argument, gl, submitted, older, device, load, pending, loads, frames,
                   settled, frame, sceneVars, renderBundle, instances, gpuBuffer,
                   gpuTextureView, gpuSampler, uniformVars>>

\* the call initSampler(sampler) of the older renderer
callInitSamplerOlder ==
    /\ older
    /\ returned = <<>>
    /\ returned' = <<initSamplerOlder(argument)>>
    /\ UNCHANGED <<argument, gl, submitted, older, device, load, pending, loads, frames,
                   settled, frame, sceneVars, renderBundle, instances, gpuBuffer,
                   gpuTextureView, gpuSampler, uniformVars>>

NextSampler ==
    \/ callInitSampler
    \/ callInitSamplerOlder

SpecSampler == InitSampler /\ [][NextSampler]_vars

(***************************************************************************)
(* A DynamicUniformBuffer used on its own (frameUniformsBuffer): update     *)
(* calls and the callbacks of mapWriteAsync, in any interleaving.          *)
(***************************************************************************)
\* the call update(commandEncoder, array)
callUpdate ==
    /\ frames < MaxUpdates
    /\ frames' = frames + 1
    /\ frameUniformsBuffer' = update(frameUniformsBuffer)
    /\ UNCHANGED <<callVars, submitted, older, device, load, pending, loads,
                   settled, frame, sceneVars, renderBundle, instances, gpuBuffer,
                   gpuTextureView, gpuSampler, lightUniformsBuffer>>

NextBuffer ==
    \/ callUpdate
    \/ \E buffer \in 1..MaxUpdates : frameMapWriteResolved(buffer)

SpecBuffer == Init /\ [][NextBuffer]_vars

(***************************************************************************)
(* PBRShaderProgram.bindPrimitive of the WebGL2 backend, called for one    *)
(* primitive after another on one context.                                 *)
(***************************************************************************)
\* ATTRIB_MAP of pbr-material.js: the attribute locations of the WebGL2
\* shader, in the order for-in enumerates the keys
ATTRIB_MAP_webgl2 ==
    <<[name |-> "POSITION", attrib |-> 1], [name |-> "NORMAL", attrib |-> 2],
      [name |-> "TANGENT", attrib |-> 3], [name |-> "TEXCOORD_0", attrib |-> 4],
      [name |-> "TEXCOORD_1", attrib |-> 5], [name |-> "COLOR_0", attrib |-> 6]>>

RECURSIVE bindAttributes(_, _, _)
\* for (let attribName in ATTRIB_MAP): the array of an attribute the
\* primitive has is enabled, its buffer bound and its pointer set; the array
\* of any other is disabled
bindAttributes(context, attributes, entries) ==
    IF entries = <<>> THEN context
    ELSE LET name == Head(entries).name
             attrib == Head(entries).attrib
         IN  bindAttributes(
               IF name \in DOMAIN attributes
               THEN [context EXCEPT
                       !.enabled = @ \cup {attrib},
                       !.ARRAY_BUFFER = attributes[name].bufferView,
                       !.pointer = (attrib :> attributes[name]) @@ @]
               ELSE [context EXCEPT !.enabled = @ \ {attrib}],
               attributes, Tail(entries))

\* a bindPrimitive that leaves enabled every array that was enabled
bindPrimitiveEnablingOnly(context, primitive) ==
    LET bound == bindAttributes(context, primitive.attributes, ATTRIB_MAP_webgl2)
    IN  [bound EXCEPT
           !.enabled = @ \cup context.enabled,
           !.ELEMENT_ARRAY_BUFFER = IF primitive.indices # NoIndices
                                    THEN primitive.indices.bufferView ELSE @]

\* bindPrimitive
bindPrimitive(context, primitive) ==
    LET bound == bindAttributes(context, primitive.attributes, ATTRIB_MAP_webgl2)
    IN  IF primitive.indices # NoIndices
        THEN [bound EXCEPT !.ELEMENT_ARRAY_BUFFER = primitive.indices.bufferView]
        ELSE bound

\* an attribute of a primitive object: its buffer view and layout
VertexAttribute(bufferView, componentCount, byteOffset) ==
    [bufferView |-> bufferView, componentCount |-> componentCount,
     componentType |-> GL_FLOAT, normalized |-> FALSE, byteStride |-> 48,
     byteOffset |-> byteOffset]

\* the attributes a primitive object may have besides POSITION; JOINTS_0 has
\* no location in ATTRIB_MAP_webgl2
OptionalAttributes ==
    [NORMAL |-> VertexAttribute("bvA1", 3, 12), TANGENT |-> VertexAttribute("bvA1", 4, 24),
     TEXCOORD_0 |-> VertexAttribute("bvA1", 2, 40), COLOR_0 |-> VertexAttribute("bvB1", 4, 0),
     JOINTS_0 |-> VertexAttribute("bvB1", 4, 16)]

\* the primitive objects bindPrimitive is applied to: POSITION with any of
\* the optional attributes, with or without indices
BindPrimitiveInputs ==
    { [attributes |-> [name \in {"POSITION"} \cup optional |->
                         IF name = "POSITION" THEN VertexAttribute("bvA1", 3, 0)
                         ELSE OptionalAttributes[name]],
       indices |-> indices] :
        optional \in SUBSET DOMAIN OptionalAttributes,
        indices \in {NoIndices, Indices(GL_UNSIGNED_SHORT, "bvA2")} }

\* the call program.bindPrimitive(primitive)
callBindPrimitive ==
    /\ \E primitive \in BindPrimitiveInputs :
         /\ argument' = primitive
         /\ gl' = bindPrimitive(gl, primitive)
    /\ UNCHANGED <<returned, submitted, older, device, load, pending, loads, frames,
                   settled, frame, sceneVars, renderBundle, instances, gpuBuffer,
                   gpuTextureView, gpuSampler, uniformVars>>

NextBindPrimitive == callBindPrimitive

SpecBindPrimitive == Init /\ [][NextBindPrimitive]_vars

(***************************************************************************)
(* PBRShaderProgram.bindMaterial of the WebGL2 backend, called on programs *)
(* built from the defines of getProgramDefines, one call after another on  *)
(* one context.                                                            *)
(***************************************************************************)
\* the names of a program's uniform object that bindMaterial tests: a
\* uniform the fragment source declares and reads under an #ifdef exists in
\* the program when the define is set
uniformEveryDeclared(defines) ==
    {"baseColorTex", "normalTex", "metallicRoughnessTex", "occlusionTex",
     "occlusionStrength", "emissiveTex"}

uniformOf(defines) ==
    (IF "USE_BASE_COLOR_MAP" \in Range(defines) THEN {"baseColorTex"} ELSE {})
    \cup (IF "USE_NORMAL_MAP" \in Range(defines) THEN {"normalTex"} ELSE {})
    \cup (IF "USE_METAL_ROUGH_MAP" \in Range(defines)
          THEN {"metallicRoughnessTex"} ELSE {})
    \cup (IF "USE_OCCLUSION" \in Range(defines)
          THEN {"occlusionTex", "occlusionStrength"} ELSE {})
    \cup (IF "USE_EMISSIVE_TEXTURE" \in Range(defines) THEN {"emissiveTex"} ELSE {})

\* the five blocks of bindMaterial in order: the uniform each tests and the
\* texture of the material it binds
samplerBlocks ==
    <<[uniform |-> "baseColorTex", texture |-> "baseColorTexture"],
      [uniform |-> "normalTex", texture |-> "normalTexture"],
      [uniform |-> "metallicRoughnessTex", texture |-> "metallicRoughnessTexture"],
      [uniform |-> "occlusionStrength", texture |-> "occlusionTexture"],
      [uniform |-> "emissiveTex", texture |-> "emissiveTexture"]>>

RECURSIVE bindSamplers(_, _, _, _)
\* the blocks of bindMaterial from one on.  A block whose uniform exists
\* makes unit samplerIndex active, then reads material.<texture>.image, a
\* TypeError when the material has no such texture, binds the texture and
\* its sampler to the unit and increments samplerIndex.  bound is the units
\* bound by this call, in order.
bindSamplers(call, uniform, material, blocks) ==
    IF blocks = <<>> \/ call.thrown THEN call
    ELSE LET block == Head(blocks)
             unit == call.samplerIndex
             active == [call EXCEPT !.context.activeTexture = unit]
         IN  bindSamplers(
               IF block.uniform \notin uniform THEN call
               ELSE IF material[block.texture] = NoTexture
               THEN [active EXCEPT !.thrown = TRUE]
               ELSE [active EXCEPT
                       !.context.texture = (unit :> material[block.texture]) @@ @,
                       !.context.sampler = (unit :> textureSampler) @@ @,
                       !.bound = Append(@, [unit |-> unit, texture |-> block.texture]),
                       !.samplerIndex = unit + 1],
               uniform, material, Tail(blocks))

\* bindMaterial: the context it leaves, the units it bound, whether it threw
bindMaterial(context, uniform, material) ==
    bindSamplers([context |-> context, samplerIndex |-> 0, bound |-> <<>>,
                  thrown |-> FALSE],
                 uniform, material, samplerBlocks)

\* the primitive objects programs are built for: those of DefinesInputs with
\* metallic 0.0, roughness 1.0 and no COLOR_0
BindMaterialInputs ==
    {primitive \in DefinesInputs :
       /\ primitive.material.metallicRoughnessFactor = <<0, 100>>
       /\ "COLOR_0" \notin primitive.attributes}

\* a material without textures
untextured ==
    [baseColorTexture |-> NoTexture, normalTexture |-> NoTexture,
     metallicRoughnessTexture |-> NoTexture, occlusionTexture |-> NoTexture,
     emissiveTexture |-> NoTexture, metallicRoughnessFactor |-> <<0, 100>>]

\* the call program.bindMaterial(material) on the program of a primitive,
\* with the material of that primitive or with the untextured one
callBindMaterial ==
    /\ \E primitive \in BindMaterialInputs :
         \E material \in {primitive.material, untextured} :
           \E call \in {bindMaterial(gl, uniformOf(getProgramDefines(primitive)),
                                     material)} :
             /\ argument' = [primitive |-> primitive, material |-> material]
             /\ returned' = <<[bound |-> call.bound, thrown |-> call.thrown]>>
             /\ gl' = call.context
    /\ UNCHANGED <<submitted, older, device, load, pending, loads, frames,
                   settled, frame, sceneVars, renderBundle, instances, gpuBuffer,
                   gpuTextureView, gpuSampler, uniformVars>>

NextBindMaterial == callBindMaterial

SpecBindMaterial == Init /\ [][NextBindMaterial]_vars

(***************************************************************************)
(* What the properties below observe.                                      *)
(***************************************************************************)
\* the places <<pipeline, bucket, position>> of the grouping index at which
\* a primitive is registered
registrationsOf(primitive) ==
    UNION { UNION { { <<pl, i, k>> :
                      k \in {n \in DOMAIN pipelineMaterials[pl][i].value :
                               pipelineMaterials[pl][i].value[n] = primitive} } :
                    i \in DOMAIN pipelineMaterials[pl] } :
            pl \in DOMAIN pipelineMaterials }

\* the pipelines, and the (pipeline, material) buckets, a primitive is under
pipelinesOf(primitive) == {r[1] : r \in registrationsOf(primitive)}
bucketsOf(primitive) ==
    {<<r[1], pipelineMaterials[r[1]][r[2]].key>> : r \in registrationsOf(primitive)}

Registered == {p \in Primitives : registrationsOf(p) # {}}

\* the pipeline key createPipeline computes for a registered primitive
keyOf(primitive) ==
    IF older THEN pipelineKeyOlder(primitive)
    ELSE pipelineKey(primitive, gpuShaderModule[primitive])

\* the components of the Pipeline Key of a registered primitive; the older
\* renderer has one shader module for every primitive
keyComponents(primitive) ==
    [shader |-> IF older THEN 0 ELSE gpuShaderModule[primitive],
     topology |-> primitiveTopology(primitiveData[primitive].mode),
     cullMode |-> cullModeOf(primitiveData[primitive].material),
     blend |-> materialData[primitiveData[primitive].material].blend,
     vertexState |-> gpuVertexState(primitive, older)]

\* the primitives drawn by a command sequence, in the order of their draws
drawsOf(commands) ==
    LET draws == SelectSeq(commands, LAMBDA c : c.op \in {"draw", "drawIndexed"}
                                                /\ c.obj \in Primitives)
    IN  [i \in DOMAIN draws |-> draws[i].obj]

blended(primitive) == materialData[primitiveData[primitive].material].blend

(***************************************************************************)
(* C1                                                                      *)
(***************************************************************************)
\* C1: after any sequence of createPipeline calls, the pipelines ever
\* created are as many as the distinct keys computed, no key is cached
\* twice, and two registered primitives with the same key are under one and
\* the same pipeline.
C1_PipelineCache ==
    /\ Len(created) = Cardinality(keysSeen)
    /\ Len(pipelines) = Len(created)
    /\ \A i, j \in DOMAIN pipelines : pipelines[i].key = pipelines[j].key => i = j
    /\ \A p1, p2 \in Registered :
         keyOf(p1) = keyOf(p2) =>
           /\ pipelinesOf(p1) = pipelinesOf(p2)
           /\ Cardinality(pipelinesOf(p1)) = 1

\* two different primitives with one key are registered, one of them by
\* repeated createPipeline calls, next to a pipeline of another key
C1_Witness ==
    /\ Len(created) >= 2
    /\ \E p1, p2 \in Registered :
         /\ p1 # p2
         /\ keyOf(p1) = keyOf(p2)
         /\ Cardinality(registrationsOf(p1)) >= 2

(***************************************************************************)
(* C2                                                                      *)
(***************************************************************************)
\* C2: two registered primitives whose Pipeline Keys differ in a component
\* (shader variant, topology, cull mode, blend state, vertex buffer layout,
\* index format) are under no common pipeline, in either renderer.
C2_DifferingKeysDistinctPipelines ==
    \A p1, p2 \in Registered :
      keyComponents(p1) # keyComponents(p2) =>
        pipelinesOf(p1) \cap pipelinesOf(p2) = {}

(***************************************************************************)
(* C3                                                                      *)
(***************************************************************************)
\* the attribute-presence set and the material-texture-presence set
presenceOf(primitive) ==
    LET m == materialData[primitiveData[primitive].material]
    IN  <<attributesOf(primitive),
          {t \in {"baseColor", "normal", "metallicRoughness", "occlusion", "emissive"} :
             CASE t = "baseColor" -> m.baseColorTexture # NoTexture
               [] t = "normal" -> m.normalTexture # NoTexture
               [] t = "metallicRoughness" -> m.metallicRoughnessTexture # NoTexture
               [] t = "occlusion" -> m.occlusionTexture # NoTexture
               [] OTHER -> m.emissiveTexture # NoTexture}>>

\* C3 as stated: two primitives have the same shader module exactly when
\* their attribute-presence and material-texture-presence sets are the same.
C3_ModulePerPresenceSets ==
    \A p1, p2 \in DOMAIN gpuShaderModule :
      (presenceOf(p1) = presenceOf(p2)) <=> (gpuShaderModule[p1] = gpuShaderModule[p2])

\* C3, amended: two primitives have the same shader module exactly when the
\* flag sets derived for them are the same.
C3_ModulePerFlagSet ==
    \A p1, p2 \in DOMAIN gpuShaderModule :
      (GetDefinesForPrimitive(p1) = GetDefinesForPrimitive(p2))
        <=> (gpuShaderModule[p1] = gpuShaderModule[p2])

\* two different primitives share a module, two primitives with the same
\* presence sets have different modules, and two primitives with different
\* texture-presence sets share a module
C3_Witness ==
    /\ \E p1, p2 \in DOMAIN gpuShaderModule :
         /\ p1 # p2
         /\ primitiveData[p1].material = primitiveData[p2].material
         /\ gpuShaderModule[p1] = gpuShaderModule[p2]
    /\ \E p1, p2 \in DOMAIN gpuShaderModule :
         /\ presenceOf(p1) = presenceOf(p2)
         /\ gpuShaderModule[p1] # gpuShaderModule[p2]
    /\ \E p1, p2 \in DOMAIN gpuShaderModule :
         /\ presenceOf(p1) # presenceOf(p2)
         /\ gpuShaderModule[p1] = gpuShaderModule[p2]

(***************************************************************************)
(* C4                                                                      *)
(***************************************************************************)
\* C4: in the draw sequence of every frame, each draw of a primitive with
\* an opaque material comes before each draw of a primitive with a blended
\* material.
C4_OpaqueBeforeBlended ==
    \A f \in DOMAIN frame :
      \A i, j \in DOMAIN drawsOf(frame[f]) :
        (blended(drawsOf(frame[f])[i]) /\ ~blended(drawsOf(frame[f])[j])) => j < i

(***************************************************************************)
(* C5                                                                      *)
(***************************************************************************)
\* createPipeline drops a primitive whose draw mode has no topology
supported(primitive) ==
    primitiveTopology(primitiveData[primitive].mode) # Unsupported

\* C5: after setGltf completes, every primitive of the scene that has an
\* instance transform (and a draw mode with a topology) is registered in
\* exactly one (pipeline, material) bucket, exactly once.
C5_OneBucketOnce ==
    \A s \in resolved :
      \A p \in Range(gltfData[s].primitives) :
        (p \in DOMAIN instances /\ Len(instances[p]) >= 1 /\ supported(p)) =>
          Cardinality(registrationsOf(p)) = 1

(***************************************************************************)
(* C6                                                                      *)
(***************************************************************************)
\* C6: initMaterial completes without error whatever textures the material
\* lacks: no setGltf rejects with an exception of initMaterial.
C6_InitMaterialCompletes ==
    \A i \in DOMAIN settled : settled[i].result # "initMaterial"

(***************************************************************************)
(* C7                                                                      *)
(***************************************************************************)
\* C7: once setGltf has returned for sceneB (an opaque untextured primitive
\* without COLOR_0 and TEXCOORD_0, a blended primitive with a base-color
\* texture) with its uploads done, there are exactly two pipelines and a
\* frame draws exactly the two primitives, the opaque one first.
C7_TwoPipelinesTwoDraws ==
    (/\ Len(settled) = 1
     /\ settled[1].gltf = "sceneB"
     /\ settled[1].result # "upload"
     /\ frame # <<>>) =>
       /\ Len(created) = 2
       /\ drawsOf(frame[1]) = <<"pB1", "pB2">>

(***************************************************************************)
(* C8                                                                      *)
(***************************************************************************)
\* a texture slot of a bind group holds a view that exists
bound(slot) == slot.image \in Images => slot.view >= 1

\* C8: a step of setGltf that goes past its join, or that creates a bind
\* group or a pipeline, is taken with no upload pending, and every texture
\* view the material bind groups then hold exists.
C8_BuildAfterJoin ==
    [][ (\/ sceneVars' # sceneVars
         \/ /\ Len(settled') > Len(settled)
            /\ Last(settled').result # "upload")
        => /\ pending = {}
           /\ \A m \in DOMAIN materialBindGroup' :
                /\ bound(materialBindGroup'[m].baseColor)
                /\ bound(materialBindGroup'[m].normal)
                /\ bound(materialBindGroup'[m].metallicRoughness)
                /\ bound(materialBindGroup'[m].occlusion)
                /\ bound(materialBindGroup'[m].emissive) ]_vars

\* setGltf has resolved for sceneA, whose two buffer views and image were
\* uploaded concurrently, with its bind groups and pipelines created
C8_Witness ==
    /\ \E i \in DOMAIN settled : settled[i] = Settled("sceneA", "")
    /\ Len(created) >= 2
    /\ {"mA1", "mA2", "mA3"} \subseteq DOMAIN materialBindGroup
    /\ gpuBuffer["bvA1"].copied > 0 /\ gpuBuffer["bvA2"].copied > 0

(***************************************************************************)
(* C9                                                                      *)
(***************************************************************************)
\* C9: a frame draws primitives only of scenes whose setGltf has finished
\* creating all its pipelines and bind groups.
C9_FramesDrawFinishedScenes ==
    \A f \in DOMAIN frame :
      \A i \in DOMAIN drawsOf(frame[f]) :
        sceneOfPrimitive(drawsOf(frame[f])[i]) \in resolved

(***************************************************************************)
(* C10                                                                     *)
(***************************************************************************)
\* the renderer's fields after one setGltf(gltf) on a new renderer
loadedOnce(gltf) ==
    initPrimitives(
      initMaterials(
        [programs |-> <<>>, NEXT_SHADER_ID |-> 0, pipelines |-> <<>>,
         created |-> <<>>, pipelineMaterials |-> <<>>, opaquePipelines |-> <<>>,
         blendedPipelines |-> <<>>,
         instances |-> initNode(<<>>, gltfData[gltf].scene),
         gpuShaderModule |-> <<>>, primitiveBindGroup |-> <<>>,
         materialBindGroup |-> <<>>,
         gpuTextureView |-> [i \in Range(gltfData[gltf].images) |-> 1],
         keysSeen |-> {}, failing |-> {}, thrown |-> ""],
        gltfData[gltf].materials, older),
      gltfData[gltf].primitives, older)

\* the renderer holds the pipelines, the buckets and the draw sequence W holds
sameScene(W) ==
    /\ pipelines = W.pipelines
    /\ pipelineMaterials = W.pipelineMaterials
    /\ IF older THEN renderPassOlder(World({})) = renderPassOlder(W)
       ELSE renderBundle = recordBundle(W)

\* C10: once setGltf has resolved twice for the same scene, the renderer
\* holds the pipelines, the buckets and the draw sequence of one setGltf.
C10_SetGltfIdempotent ==
    (/\ Len(settled) = 2
     /\ settled[1] = settled[2]
     /\ settled[1].result = "resolved") => sameScene(loadedOnce(settled[1].gltf))

(***************************************************************************)
(* C11                                                                     *)
(***************************************************************************)
\* the draw modes C11 names: triangle list and strip, line list and strip,
\* point list
listedMode(primitive) ==
    primitiveData[primitive].mode
      \in {GL_TRIANGLES, GL_TRIANGLE_STRIP, GL_LINES, GL_LINE_STRIP, GL_POINTS}

\* C11: createPipeline for a primitive whose draw mode has no topology
\* (called again on a primitive initPrimitive has prepared) leaves the
\* renderer as it is (no pipeline, the cache, the lists and the buckets
\* unchanged); such a primitive is in no bucket and in no frame,
\* the setGltf of its scene does not fail for it, and a frame after that
\* setGltf draws all the other primitives of the scene.
C11_UnsupportedModeDropped ==
    /\ \A p \in Primitives :
         ~listedMode(p) =>
           /\ p \in DOMAIN primitiveBindGroup =>
                IF older THEN createPipelineOlder(World({}), p) = World({})
                ELSE createPipeline(World({}), p) = World({})
           /\ registrationsOf(p) = {}
           /\ \A f \in DOMAIN frame : p \notin Range(drawsOf(frame[f]))
    /\ \A i \in DOMAIN settled :
         settled[i].gltf = "sceneA" => settled[i].result \in {"resolved", "upload"}
    /\ \A f \in DOMAIN frame :
         "sceneA" \in resolved =>
           {p \in Range(gltfData["sceneA"].primitives) : listedMode(p)}
             \subseteq Range(drawsOf(frame[f]))

\* setGltf has resolved for sceneA, initPrimitive has made the bind group of
\* its LINE_LOOP primitive pA5 and called createPipeline for it, and a frame
\* has drawn the other primitives
C11_Witness ==
    /\ "sceneA" \in resolved
    /\ "pA5" \in DOMAIN primitiveBindGroup
    /\ ~listedMode("pA5")
    /\ frame # <<>>
    /\ "pA1" \in Range(drawsOf(frame[1]))

(***************************************************************************)
(* C12                                                                     *)
(***************************************************************************)
\* the view C12 names for a slot: the material's own, or the placeholder
ownOr(texture, placeholder) == IF texture # NoTexture THEN texture ELSE placeholder

\* C12: in the renderer with render bundles, once setGltf has gone through
\* the materials of a scene, every material of the scene has a bind group
\* whose five texture slots hold the material's own view where it has the
\* texture and else the placeholder: white for base color,
\* metallic-roughness and occlusion, blue for normal, black for emissive.
C12_SlotsOwnOrPlaceholder ==
    ~older =>
      \A i \in DOMAIN settled :
        settled[i].result # "upload" =>
          \A m \in Range(gltfData[settled[i].gltf].materials) :
            /\ m \in DOMAIN materialBindGroup
            /\ LET g == materialBindGroup[m]
                   d == materialData[m]
               IN  /\ g.baseColor.image = ownOr(d.baseColorTexture, "whiteTextureView")
                   /\ g.normal.image = ownOr(d.normalTexture, "blueTextureView")
                   /\ g.metallicRoughness.image
                        = ownOr(d.metallicRoughnessTexture, "whiteTextureView")
                   /\ g.occlusion.image = ownOr(d.occlusionTexture, "whiteTextureView")
                   /\ g.emissive.image = ownOr(d.emissiveTexture, "blackTextureView")

(***************************************************************************)
(* C13, C14                                                                *)
(***************************************************************************)
\* the flags getProgramDefines returned
flags == Range(returned[1])

\* the primitive has the attribute; the material has the texture
hasAttribute(name) == name \in argument.attributes
hasTexture(texture) == texture # NoTexture

\* C13: getProgramDefines sets USE_VERTEX_COLOR exactly when COLOR_0 is
\* present; USE_BASE_COLOR_MAP, USE_METAL_ROUGH_MAP, USE_OCCLUSION and
\* USE_EMISSIVE_TEXTURE exactly when TEXCOORD_0 is present and the material
\* has the texture; USE_NORMAL_MAP exactly when TEXCOORD_0 and TANGENT are
\* present and the material has a normal texture; without TEXCOORD_0 no
\* texture flag is set.
C13_DerivedFlags ==
    returned # <<>> =>
      LET m == argument.material
          uv == hasAttribute("TEXCOORD_0")
      IN  /\ "USE_VERTEX_COLOR" \in flags <=> hasAttribute("COLOR_0")
          /\ "USE_BASE_COLOR_MAP" \in flags <=> (uv /\ hasTexture(m.baseColorTexture))
          /\ "USE_METAL_ROUGH_MAP" \in flags
               <=> (uv /\ hasTexture(m.metallicRoughnessTexture))
          /\ "USE_OCCLUSION" \in flags <=> (uv /\ hasTexture(m.occlusionTexture))
          /\ "USE_EMISSIVE_TEXTURE" \in flags <=> (uv /\ hasTexture(m.emissiveTexture))
          /\ "USE_NORMAL_MAP" \in flags
               <=> (uv /\ hasAttribute("TANGENT") /\ hasTexture(m.normalTexture))
          /\ ~uv => flags \cap {"USE_BASE_COLOR_MAP", "USE_NORMAL_MAP",
                                "USE_METAL_ROUGH_MAP", "USE_OCCLUSION",
                                "USE_EMISSIVE_TEXTURE"} = {}
          /\ flags \subseteq {"USE_VERTEX_COLOR", "USE_BASE_COLOR_MAP",
                              "USE_NORMAL_MAP", "USE_METAL_ROUGH_MAP",
                              "USE_OCCLUSION", "USE_EMISSIVE_TEXTURE", "FULLY_ROUGH"}

\* getProgramDefines has returned for a primitive with TEXCOORD_0 and
\* without TANGENT whose material has a normal and an emissive texture:
\* the emissive flag is set, the normal-map flag is not
C13_Witness ==
    /\ returned # <<>>
    /\ hasAttribute("TEXCOORD_0") /\ ~hasAttribute("TANGENT")
    /\ hasTexture(argument.material.normalTexture)
    /\ hasTexture(argument.material.emissiveTexture)
    /\ "USE_EMISSIVE_TEXTURE" \in flags
    /\ "USE_NORMAL_MAP" \notin flags

\* C14: getProgramDefines sets FULLY_ROUGH exactly when the material has no
\* metallic-roughness texture or the primitive no TEXCOORD_0, and the
\* roughness factor is exactly 1.0: a roughness of 0.99 never sets it, and
\* the metallic factor has no part in it.
C14_FullyRough ==
    returned # <<>> =>
      LET m == argument.material
      IN  /\ "FULLY_ROUGH" \in flags
               <=> /\ ~hasTexture(m.metallicRoughnessTexture)
                      \/ ~hasAttribute("TEXCOORD_0")
                   /\ m.metallicRoughnessFactor[2] = 100
          /\ m.metallicRoughnessFactor[2] = 99 => "FULLY_ROUGH" \notin flags
          /\ \A other \in DefinesInputs :
               (/\ other.attributes = argument.attributes
                /\ \A field \in DOMAIN m \ {"metallicRoughnessFactor"} :
                     other.material[field] = m[field]
                /\ other.material.metallicRoughnessFactor[2]
                     = m.metallicRoughnessFactor[2])
               => ("FULLY_ROUGH" \in Range(getProgramDefines(other))
                     <=> "FULLY_ROUGH" \in flags)

\* getProgramDefines has set FULLY_ROUGH for a primitive whose material has
\* a metallic-roughness texture that it cannot use (no TEXCOORD_0), a
\* roughness of 1.0 and a metallic factor of 0.0
C14_Witness ==
    /\ returned # <<>>
    /\ hasTexture(argument.material.metallicRoughnessTexture)
    /\ ~hasAttribute("TEXCOORD_0")
    /\ argument.material.metallicRoughnessFactor = <<0, 100>>
    /\ "FULLY_ROUGH" \in flags

(***************************************************************************)
(* C15                                                                     *)
(***************************************************************************)
\* the smallest multiple of 4 that is at least n
nextMultipleOf4(n) == CHOOSE k \in n..(n + 3) : k % 4 = 0

\* C15: in either renderer, the GPU buffer of an uploaded buffer view of
\* byte length n has the smallest multiple of 4 that is at least n for its
\* size, and so has the region copied into it once the upload is done.
C15_AlignedUpload ==
    \A bv \in DOMAIN gpuBuffer :
      LET n == bufferViewData[bv].byteLength
      IN  /\ gpuBuffer[bv].size = nextMultipleOf4(n)
          /\ gpuBuffer[bv].copied \in {0, nextMultipleOf4(n)}

(***************************************************************************)
(* C16                                                                     *)
(***************************************************************************)
\* the field of the sampler is absent or holds none of the codes
unmapped(field, codes) == field \notin DOMAIN argument \/ argument[field] \notin codes

\* the field of the descriptor was assigned the value
assigned(field, value) ==
    field \in DOMAIN returned[1] /\ returned[1][field] = value

\* C16: in the sampler descriptor initSampler creates, a minFilter or
\* magFilter code that has no explicit mapping (absent, or none of the
\* codes the switch names) gives linear filtering, and a wrapS or wrapT
\* code that has none gives no repeating address mode (the field is left
\* to the device's clamp-to-edge, or is "clamp-to-edge").
C16_UnmappedLinearClamp ==
    returned # <<>> =>
      /\ unmapped("minFilter", {GL_LINEAR, GL_LINEAR_MIPMAP_NEAREST,
                                GL_NEAREST_MIPMAP_LINEAR, GL_LINEAR_MIPMAP_LINEAR})
           => assigned("minFilter", "linear")
      /\ unmapped("magFilter", {GL_LINEAR}) => assigned("magFilter", "linear")
      /\ unmapped("wrapS", {GL_REPEAT, GL_MIRRORED_REPEAT})
           => \/ "addressModeU" \notin DOMAIN returned[1]
              \/ assigned("addressModeU", "clamp-to-edge")
      /\ unmapped("wrapT", {GL_REPEAT, GL_MIRRORED_REPEAT})
           => \/ "addressModeV" \notin DOMAIN returned[1]
              \/ assigned("addressModeV", "clamp-to-edge")

(***************************************************************************)
(* C17                                                                     *)
(***************************************************************************)
\* the shader-variant cache, the pipeline cache, the opaque and blended
\* lists, the pipeline -> material -> primitive index, the material bind
\* groups
builtBySetGltf ==
    <<programs, pipelines, opaquePipelines, blendedPipelines, pipelineMaterials,
      materialBindGroup>>

\* C17: a step that renders a frame leaves the shader-variant cache, the
\* pipeline cache, the opaque and blended lists, the grouping index and the
\* material bind groups as they are; a step that changes any of them is the
\* step of a setGltf past its join.
C17_FrameWritesNoSceneState ==
    [][ /\ frames' # frames => builtBySetGltf' = builtBySetGltf
        /\ builtBySetGltf' # builtBySetGltf
             => /\ load.phase # "idle"
                /\ Len(settled') = Len(settled) + 1 ]_vars

\* a frame has been rendered with pipelines cached, blended ones among
\* them, and material bind groups made
C17_Witness ==
    /\ frames >= 1
    /\ frame # <<>>
    /\ pipelines # <<>>
    /\ (~older => blendedPipelines # <<>>)
    /\ programs # <<>>
    /\ DOMAIN materialBindGroup # {}

(***************************************************************************)
(* C18                                                                     *)
(***************************************************************************)
\* the primitives of a sequence that have no shader module in the next state
unshaded(primitives) ==
    SelectSeq(primitives, LAMBDA p : p \notin DOMAIN gpuShaderModule')

\* C18: when a setGltf returns because compileGLSL threw for the variant of
\* a primitive, the load has failed (it is not resolved), this.renderBundle
\* is the one from before the load, the variant of the primitive it failed
\* on (the first of the scene left without a shader module) is not in
\* this.programs, and one compilation failed in the load: every other
\* PBRShaderModule the load constructed is cached.
C18_CompileFailureAborts ==
    [][ (/\ Len(settled') = Len(settled) + 1
         /\ Last(settled').result = "compileGLSL")
        => /\ Last(settled').gltf \notin resolved' \ resolved
           /\ renderBundle' = renderBundle
           /\ unshaded(gltfData[load.gltf].primitives) # <<>>
           /\ ~MapHas(programs',
                      programKeyOf(Head(unshaded(gltfData[load.gltf].primitives))))
           /\ NEXT_SHADER_ID' - NEXT_SHADER_ID = (Len(programs') - Len(programs)) + 1
      ]_vars

\* a setGltf of sceneC has failed in compileGLSL after a setGltf of sceneA
\* had recorded a render bundle
C18_Witness ==
    /\ Len(settled) = 2
    /\ settled[1] = Settled("sceneA", "")
    /\ settled[2] = Settled("sceneC", "compileGLSL")
    /\ renderBundle # <<>>
    /\ NEXT_SHADER_ID > Len(programs)

(***************************************************************************)
(* C19                                                                     *)
(***************************************************************************)
\* C19: once init has failed to acquire the adapter or the device, the
\* failure stays (init has rejected, no device appears later) and no step,
\* an onFrame call among them, leaves rendering work submitted to the
\* queue or a frame drawn.
C19_FailedInitSubmitsNothing ==
    [][ /\ device = "failed" => device' = "failed"
        /\ device' = "failed" => (submitted' = <<>> /\ frame' = <<>>)
        /\ (device = "failed" /\ frames' # frames) => submitted' = <<>> ]_vars

\* init has failed and onFrame has been called as often as the bound lets it
C19_Witness ==
    /\ device = "failed"
    /\ frames = MaxFrames
    /\ submitted = <<>>

(***************************************************************************)
(* C20                                                                     *)
(***************************************************************************)
\* the positions of the commands of a command buffer with the op
positionsOf(commands, op) == {i \in DOMAIN commands : commands[i].op = op}

\* C20: an onFrame call of a renderer with a device submits exactly one
\* command buffer, which holds exactly one render pass (one beginRenderPass,
\* one endPass, the last command); in the renderer with render bundles the
\* copies into the frame-uniform and the light-uniform buffer, one each,
\* are encoded before the pass begins.
C20_OneSubmitUniformsFirst ==
    [][ (frames' # frames /\ device = "ok")
        => /\ Len(submitted') = 1
           /\ LET commands == submitted'[1]
                  begins == positionsOf(commands, "beginRenderPass")
                  copies == positionsOf(commands, "copyBufferToBuffer")
              IN  /\ Cardinality(begins) = 1
                  /\ positionsOf(commands, "endPass") = {Len(commands)}
                  /\ ~older =>
                       /\ {commands[i].obj : i \in copies}
                            = {"frameUniformsBuffer", "lightUniformsBuffer"}
                       /\ Cardinality(copies) = 2
                       /\ \A i \in copies : \A b \in begins : i < b ]_vars

\* the renderer with render bundles has submitted a frame whose pass
\* replays a recorded bundle
C20_Witness ==
    /\ ~older
    /\ frames >= 1
    /\ Len(submitted) = 1
    /\ positionsOf(submitted[1], "executeBundles") # {}
    /\ positionsOf(submitted[1], "copyBufferToBuffer") # {}

(***************************************************************************)
(* C21                                                                     *)
(***************************************************************************)
\* the upload buffers of a DynamicUniformBuffer that are in its pool
pool(d) == Range(d.mappedBuffers)

\* C21: over a step from DynamicUniformBuffer d to e, a buffer enters the
\* pool only as its own mapWriteAsync completes; a mapWriteAsync is
\* requested only for the buffer of the previous update, by an update that
\* writes another buffer; and the buffer an update writes is neither the
\* one of the previous update (its copy may be pending) nor one whose
\* mapWriteAsync is in flight.
recycledByCallback(d, e) ==
    /\ \A b \in pool(e) \ pool(d) : b \in d.mapping /\ b \notin e.mapping
    /\ \A b \in e.mapping \ d.mapping :
         /\ b = d.previousBuffer
         /\ e.previousBuffer # b
    /\ e.previousBuffer # d.previousBuffer
         => e.previousBuffer \notin d.mapping \cup {d.previousBuffer}

C21_RecycledByCallback ==
    [][ recycledByCallback(frameUniformsBuffer, frameUniformsBuffer') ]_vars

\* a buffer has come back into the pool through its callback while another
\* mapWriteAsync is in flight and a third buffer is the one last written
C21_Witness ==
    /\ frameUniformsBuffer.mappedBuffers # <<>>
    /\ frameUniformsBuffer.mapping # {}
    /\ frameUniformsBuffer.allocated >= 3

(***************************************************************************)
(* C22                                                                     *)
(***************************************************************************)
\* the pipelines of this.pipelines in the order their keys were first seen
firstSeen == [i \in DOMAIN pipelines |-> pipelines[i].value]

\* the primitive whose createPipeline call created the pipeline: the first
\* one registered under it
creatorOf(pipeline) == pipelineMaterials[pipeline][1].value[1]

\* C22: in the renderer with render bundles, the blended list holds the
\* pipelines that were created for a material with the blend flag, the
\* opaque list the others, each once and in the order the keys were first
\* seen (a cache hit adds nothing to either list).
C22_ListsInFirstSeenOrder ==
    ~older =>
      /\ blendedPipelines = SelectSeq(firstSeen, LAMBDA pl : blended(creatorOf(pl)))
      /\ opaquePipelines = SelectSeq(firstSeen, LAMBDA pl : ~blended(creatorOf(pl)))

\* two opaque pipelines and a blended one are listed, and a createPipeline
\* call has hit the cache (a pipeline has two primitives under it)
C22_Witness ==
    /\ ~older
    /\ Len(opaquePipelines) >= 2
    /\ Len(blendedPipelines) >= 1
    /\ \E p1, p2 \in Registered : p1 # p2 /\ pipelinesOf(p1) = pipelinesOf(p2)

(***************************************************************************)
(* C23                                                                     *)
(***************************************************************************)
\* the commands recorded for a pipeline: from behind its setPipeline up to
\* the next setPipeline, given that it is set exactly once
segmentOf(commands, pipeline) ==
    LET sets == positionsOf(commands, "setPipeline")
        start == CHOOSE i \in sets : commands[i].obj = "" /\ commands[i].num = pipeline
        later == {j \in sets : j > start} \cup {Len(commands) + 1}
        end == CHOOSE j \in later : \A k \in later : j <= k
    IN  SubSeq(commands, start + 1, end - 1)

\* of a segment, the material bind groups (group 1) and the draws
materialsAndDraws(segment) ==
    SelectSeq(segment, LAMBDA c : \/ c.op = "setBindGroup" /\ c.num = 1
                                  \/ c.op \in {"draw", "drawIndexed"})

\* what C23 asks of a (material, primitive list) entry: the material bind
\* group, then per primitive an indexed draw if it has an index buffer and
\* a draw over elementCount otherwise
entryAsClaimed(entry) ==
    <<Command("setBindGroup", entry.key, 1)>>
    \o [i \in DOMAIN entry.value |->
          Command(IF primitiveData[entry.value[i]].indices # NoIndices
                  THEN "drawIndexed" ELSE "draw",
                  entry.value[i], primitiveData[entry.value[i]].elementCount)]

\* the commands are, for each of the pipelines, as C23 says for the index
recordedAsClaimed(commands, index, drawn) ==
    \A n \in DOMAIN drawn :
      /\ Cardinality({i \in positionsOf(commands, "setPipeline") :
                        commands[i].obj = "" /\ commands[i].num = drawn[n]}) = 1
      /\ materialsAndDraws(segmentOf(commands, drawn[n]))
           = Flatten([i \in DOMAIN index[drawn[n]] |->
                        entryAsClaimed(index[drawn[n]][i])])

\* C23: when setGltf records its bundle (the older renderer: when onFrame
\* encodes its pass), the commands for each pipeline are: the pipeline set
\* once, then for each (material, primitive list) entry in first-seen order
\* the material bind group set once and one draw per primitive of the list,
\* indexed iff the primitive has an index buffer, non-indexed over
\* elementCount otherwise.
C23_PipelineSequence ==
    [][ /\ (~older /\ renderBundle' # renderBundle)
          => recordedAsClaimed(renderBundle', pipelineMaterials',
                               opaquePipelines' \o blendedPipelines')
        /\ (older /\ frames' # frames /\ device = "ok")
          => recordedAsClaimed(frame'[1], pipelineMaterials, firstSeen) ]_vars

\* the bundle recorded for sceneC holds an indexed draw (pC2) and
\* non-indexed ones (pC1, pC3)
C23_Witness ==
    /\ ~older
    /\ "sceneC" \in resolved
    /\ \E i \in DOMAIN renderBundle :
         renderBundle[i] = Command("drawIndexed", "pC2", 3)
    /\ \E i \in DOMAIN renderBundle :
         renderBundle[i] = Command("draw", "pC3", 4)

(***************************************************************************)
(* C24                                                                     *)
(***************************************************************************)
\* C24: a frame rendered after another one, with no step of a setGltf in
\* between, draws the same commands whatever the frame number and the
\* uniform buffers written; in the renderer with render bundles every
\* frame replays this.renderBundle as it is, and this.renderBundle changes
\* only as a setGltf resolves.
C24_FramesReplayTheBundle ==
    [][ /\ (frames' # frames /\ device = "ok")
          => /\ frame # <<>> => frame' = frame
             /\ ~older => (frame' = <<renderBundle>> /\ renderBundle' = renderBundle)
        /\ renderBundle' # renderBundle
          => /\ Len(settled') = Len(settled) + 1
             /\ Last(settled').result = "resolved" ]_vars

\* a second frame has replayed a recorded bundle, from other upload buffers
\* than the first
C24_Witness ==
    /\ ~older
    /\ frames = 2
    /\ renderBundle # <<>>
    /\ frame = <<renderBundle>>
    /\ frameUniformsBuffer.allocated = 2

(***************************************************************************)
(* C25                                                                     *)
(***************************************************************************)
\* the pipeline was created with source-alpha / one-minus-source-alpha
alphaBlended(pipeline) ==
    created[pipeline].colorBlend
      = [srcFactor |-> "src-alpha", dstFactor |-> "one-minus-src-alpha"]

\* C25: in the renderer with render bundles a pipeline has the blend
\* factors source-alpha / one-minus-source-alpha iff the material of the
\* primitive it was created for has the blend flag; every pipeline of the
\* blended list has them, no pipeline of the opaque list has.
C25_BlendFactors ==
    ~older =>
      /\ \A pl \in DOMAIN created : alphaBlended(pl) <=> blended(creatorOf(pl))
      /\ \A i \in DOMAIN blendedPipelines : alphaBlended(blendedPipelines[i])
      /\ \A i \in DOMAIN opaquePipelines : ~alphaBlended(opaquePipelines[i])

\* a blended and an opaque pipeline have been created and listed
C25_Witness ==
    /\ ~older
    /\ blendedPipelines # <<>>
    /\ opaquePipelines # <<>>
    /\ alphaBlended(blendedPipelines[1])

(***************************************************************************)
(* C26                                                                     *)
(***************************************************************************)
\* the GPU buffers, uploads, texture views and GPU samplers made so far for
\* a resource
made(resource) ==
    [buffers |-> countOf(gpuBuffer, resource, "buffers"),
     uploads |-> countOf(gpuBuffer, resource, "uploads"),
     views |-> IF resource \in DOMAIN gpuTextureView THEN gpuTextureView[resource]
               ELSE 0,
     samplers |-> countOf(gpuSampler, resource, "samplers")]

\* made(resource) in the next state
madeNext(resource) ==
    [buffers |-> countOf(gpuBuffer', resource, "buffers"),
     uploads |-> countOf(gpuBuffer', resource, "uploads"),
     views |-> IF resource \in DOMAIN gpuTextureView' THEN gpuTextureView'[resource]
               ELSE 0,
     samplers |-> countOf(gpuSampler', resource, "samplers")]

\* the buffer view has the vertex or the index usage
usedByGPU(bufferView) == bufferViewData[bufferView].usage \cap {"vertex", "index"} # {}

spriteDraws(commands) ==
    {i \in DOMAIN commands : commands[i].op \in {"draw", "drawIndexed"}
                             /\ commands[i].obj = "lightSprite"}

\* the positions at which a command sequence draws a primitive
primitiveDraws(commands) ==
    {i \in DOMAIN commands : commands[i].op \in {"draw", "drawIndexed"}
                             /\ commands[i].obj \in Primitives}

\* C27: a recorded bundle draws the light sprites exactly once, after every
\* draw of a primitive, opaque or blended, and under the light-sprite
\* pipeline.
C27_LightSpritesLast ==
    renderBundle # <<>> =>
      /\ Cardinality(spriteDraws(renderBundle)) = 1
      /\ \A s \in spriteDraws(renderBundle) :
           /\ \A d \in primitiveDraws(renderBundle) : d < s
           /\ \E i \in 1..(s - 1) :
                /\ renderBundle[i] = Command("setPipeline", "lightSpritePipeline", 0)
                /\ \A j \in (i + 1)..s : renderBundle[j].op # "setPipeline"

\* a bundle has been recorded that draws opaque and blended primitives
C27_Witness ==
    /\ renderBundle # <<>>
    /\ \E d \in primitiveDraws(renderBundle) : blended(renderBundle[d].obj)
    /\ \E d \in primitiveDraws(renderBundle) : ~blended(renderBundle[d].obj)
    /\ spriteDraws(renderBundle) # {}

(***************************************************************************)
(* C28                                                                     *)
(***************************************************************************)
\* the last setGltf to settle resolved, and an earlier one resolved for a
\* different scene
replacedScene ==
    /\ settled # <<>>
    /\ Last(settled).result = "resolved"
    /\ \E i \in 1..(Len(settled) - 1) :
         /\ settled[i].result = "resolved"
         /\ settled[i].gltf # Last(settled).gltf

\* the primitives in the buckets of the pipelines
bucketed ==
    UNION {UNION {Range(pipelineMaterials[pipeline][m].value) :
                    m \in DOMAIN pipelineMaterials[pipeline]} :
             pipeline \in DOMAIN pipelineMaterials}

\* C28: once setGltf has resolved for a scene and then for a different one,
\* the buckets and the recorded bundle hold primitives of the later scene
\* only.
C28_OnlyTheLaterScene ==
    (~older /\ replacedScene) =>
      /\ \A d \in primitiveDraws(renderBundle) :
           renderBundle[d].obj \in Range(gltfData[Last(settled).gltf].primitives)
      /\ bucketed \subseteq Range(gltfData[Last(settled).gltf].primitives)

(***************************************************************************)
(* C29                                                                     *)
(***************************************************************************)
\* C29: whatever the order of update calls and mapWriteAsync completions,
\* the buffer of the latest copy is not in the pool, the pool holds no buffer
\* twice, and no mapWriteAsync is outstanding for a buffer that is in the
\* pool or is the buffer of the latest copy: one request per use of a buffer.
C29_PoolDiscipline ==
    LET d == frameUniformsBuffer
    IN  /\ d.previousBuffer \notin pool(d)
        /\ Cardinality(pool(d)) = Len(d.mappedBuffers)
        /\ d.mapping \cap pool(d) = {}
        /\ d.previousBuffer \notin d.mapping
        /\ pool(d) \cup d.mapping \cup {d.previousBuffer} \subseteq 0..d.allocated

\* two buffers wait in the pool while a third is being remapped and a fourth
\* holds the latest copy
C29_Witness ==
    /\ Len(frameUniformsBuffer.mappedBuffers) >= 2
    /\ frameUniformsBuffer.mapping # {}
    /\ frameUniformsBuffer.previousBuffer # 0

(***************************************************************************)
(* C30                                                                     *)
(***************************************************************************)
\* C30: an upload buffer is created only by an update that finds the pool
\* empty, one at a time, and a third or later buffer only by an update
\* called while a mapWriteAsync is still outstanding: when every
\* mapWriteAsync completes before the next update, two buffers are all that
\* is ever created.
C30_DoubleBuffering ==
    [][ frameUniformsBuffer'.allocated # frameUniformsBuffer.allocated
        => /\ frameUniformsBuffer.mappedBuffers = <<>>
           /\ frameUniformsBuffer'.allocated = frameUniformsBuffer.allocated + 1
           /\ frameUniformsBuffer.mapping = {}
                => frameUniformsBuffer'.allocated <= 2 ]_vars

\* every update has been made, each after the completion of the remap
\* requested by the one before, with two buffers
C30_Witness ==
    /\ frames = MaxUpdates
    /\ frameUniformsBuffer.allocated = 2
    /\ frameUniformsBuffer.mapping # {}

(***************************************************************************)
(* C31                                                                     *)
(***************************************************************************)
\* how often a pipeline occurs in a list
occurrences(list, pipeline) ==
    Cardinality({i \in DOMAIN list : list[i] = pipeline})

\* C31: every pipeline of the cache occurs once in the opaque and blended
\* lists taken together and has its Map of materials; the lists hold as many
\* pipelines as the cache.
C31_CachedPipelinesListedOnce ==
    ~older =>
      /\ \A i \in DOMAIN pipelines :
           /\ occurrences(opaquePipelines, pipelines[i].value)
                + occurrences(blendedPipelines, pipelines[i].value) = 1
           /\ pipelines[i].value \in DOMAIN pipelineMaterials
      /\ Len(opaquePipelines) + Len(blendedPipelines) = Len(pipelines)

\* the cache holds an opaque and a blended pipeline, and one of them has been
\* found again for a second primitive
C31_Witness ==
    /\ ~older
    /\ opaquePipelines # <<>>
    /\ blendedPipelines # <<>>
    /\ \E i \in DOMAIN pipelines :
         \E m \in DOMAIN pipelineMaterials[pipelines[i].value] :
           \/ Len(pipelineMaterials[pipelines[i].value][m].value) >= 2
           \/ Len(pipelineMaterials[pipelines[i].value]) >= 2

(***************************************************************************)
(* C32                                                                     *)
(***************************************************************************)
\* the nodes of a scene that reference a primitive, in the order initNode
\* visits them on a renderer that has not seen the scene
visits(gltf, primitive) ==
    LET visited == initNode(<<>>, gltfData[gltf].scene)
    IN  IF primitive \in DOMAIN visited THEN visited[primitive] ELSE <<>>

\* C32: once setGltf has resolved for a scene, each of its primitives that a
\* node references (and whose draw mode has a topology) is in its bucket
\* once, the recorded bundle draws it once, and its bind group holds the
\* world transform of the first node visited.
C32_OneDrawFirstTransform ==
    ~older =>
      \A s \in resolved :
        \A p \in Range(gltfData[s].primitives) :
          (Len(visits(s, p)) >= 1 /\ listedMode(p)) =>
            /\ Cardinality(registrationsOf(p)) = 1
            /\ Cardinality({d \in primitiveDraws(renderBundle) :
                              renderBundle[d].obj = p}) = 1
            /\ p \in DOMAIN primitiveBindGroup
            /\ primitiveBindGroup[p] = visits(s, p)[1]

(***************************************************************************)
(* C33                                                                     *)
(***************************************************************************)
\* a step in which an upload ends without its copy or its texture view
uploadFails ==
    /\ pending' # pending
    /\ pending' \subseteq pending
    /\ gpuBuffer' = gpuBuffer
    /\ gpuTextureView' = gpuTextureView

\* C33: when an upload of a setGltf at its await fails, that setGltf rejects
\* in the same step; and no step of a setGltf up to and including such a
\* rejection changes the material bind groups, the shader variants, the
\* pipelines, the lists, the buckets or the recorded bundle.
C33_UploadFailureAborts ==
    [][ /\ (uploadFails /\ load.phase = "awaiting")
           => /\ settled' = Append(settled, Settled(load.gltf, "upload"))
              /\ load' = Idle
        /\ (Len(settled') = Len(settled) \/ Last(settled').result = "upload")
           => UNCHANGED <<sceneVars, renderBundle>> ]_vars

\* a setGltf has failed on an upload after an earlier one had resolved, and
\* the bundle of the earlier one is still there
C33_Witness ==
    /\ Len(settled) >= 2
    /\ Last(settled).result = "upload"
    /\ settled[Len(settled) - 1].result = "resolved"
    /\ renderBundle # <<>>
    /\ load = Idle

(***************************************************************************)
(* C34                                                                     *)
(***************************************************************************)
\* C34: no defines object getProgramDefines returns holds both FULLY_ROUGH
\* and USE_METAL_ROUGH_MAP.
C34_RoughOrMap ==
    returned # <<>> =>
      ~({"FULLY_ROUGH", "USE_METAL_ROUGH_MAP"} \subseteq flags)

\* getProgramDefines has been applied to a primitive with TEXCOORD_0 and a
\* metallic-roughness texture whose roughness factor is 1.0
C34_Witness ==
    /\ returned # <<>>
    /\ hasAttribute("TEXCOORD_0")
    /\ hasTexture(argument.material.metallicRoughnessTexture)
    /\ argument.material.metallicRoughnessFactor[2] = 100
    /\ "USE_METAL_ROUGH_MAP" \in flags

(***************************************************************************)
(* C35                                                                     *)
(***************************************************************************)
\* the locations of ATTRIB_MAP_webgl2, and those of the attributes a primitive
\* object has
locations == {ATTRIB_MAP_webgl2[i].attrib : i \in DOMAIN ATTRIB_MAP_webgl2}
locationsOf(primitive) ==
    {ATTRIB_MAP_webgl2[i].attrib :
       i \in {j \in DOMAIN ATTRIB_MAP_webgl2 : ATTRIB_MAP_webgl2[j].name \in DOMAIN primitive.attributes}}

\* C35: after bindPrimitive(p), whatever was bound before, the vertex
\* attribute arrays enabled among the locations of ATTRIB_MAP_webgl2 are those of
\* the attributes p has.
C35_EnabledArraysOfPrimitive ==
    argument # <<>> => gl.enabled \cap locations = locationsOf(argument)

\* a primitive with POSITION alone has been bound on a context that had the
\* arrays of TANGENT and COLOR_0 enabled by an earlier primitive
C35_Witness ==
    /\ argument # <<>>
    /\ DOMAIN argument.attributes = {"POSITION"}
    /\ {3, 6} \subseteq DOMAIN gl.pointer
    /\ gl.enabled = {1}

(***************************************************************************)
(* C36                                                                     *)
(***************************************************************************)
\* C36: bindMaterial called with the material of the primitive whose defines
\* the program was built from does not read a texture the material lacks,
\* and the textures it binds are on the units 0, 1, ... in the order bound,
\* one unit each.
C36_TexturesPresentUnitsInOrder ==
    (returned # <<>> /\ argument.material = argument.primitive.material) =>
      /\ ~returned[1].thrown
      /\ \A i \in DOMAIN returned[1].bound :
           /\ returned[1].bound[i].unit = i - 1
           /\ argument.material[returned[1].bound[i].texture] # NoTexture
           /\ gl.texture[i - 1] = argument.material[returned[1].bound[i].texture]

\* a material with base-color, occlusion and emissive textures and no normal
\* and metallic-roughness texture has been bound on the program of its
\* primitive: three textures, on the units 0, 1 and 2
C36_Witness ==
    /\ returned # <<>>
    /\ argument.material = argument.primitive.material
    /\ [i \in DOMAIN returned[1].bound |-> returned[1].bound[i].texture]
         = <<"baseColorTexture", "occlusionTexture", "emissiveTexture">>
    /\ 3 \in DOMAIN gl.texture

====
